---- MODULE Spec2Model ----
(***************************************************************************)
(* State-machine model of the hospitable TypeScript client:                *)
(*   - TokenManager            (src/src/auth/token-manager.ts)             *)
(*   - withRetry               (src/src/http/retry.ts)                     *)
(*   - paginate / collectAll   (src/unnamed/part_004, http/paginate.ts)    *)
(*   - HttpClient.request      (src/unnamed/part_004, http/client.ts)      *)
(*                                                                         *)
(* JavaScript runs one task at a time.  An async function runs until its   *)
(* next await; continuations of settled promises are microtasks and run    *)
(* before any network completion or timer (macrotasks).  Every action      *)
(* below is one such uninterrupted run.                                    *)
(***************************************************************************)
EXTENDS Integers, Sequences, FiniteSets, TLC

VARIABLES
    \* ---- TokenManager ----
    config,          \* TokenManagerConfig + process.env['HOSPITABLE_PAT']
    accessToken,     \* TokenManager.accessToken
    refreshToken,    \* TokenManager.refreshToken
    expiresAt,       \* TokenManager.expiresAt
    refreshPromise,  \* TokenManager.refreshPromise (0 = null, else a promise id)
    rp,              \* the promises created by ensureRefreshed, by id
    nextId,          \* next promise id
    now,             \* Date.now()
    calls,           \* log of POST {baseURL}/oauth/token requests
    pc, op, joined, result,  \* the calls of getAuthHeader / handleUnauthorized
    concurrent,      \* history: per call, the calls awaiting an exchange in flight
                     \* at the moment it was made
    atCall,          \* history: per call, this.refreshPromise, the next promise id
                     \* and whether the call before it was a handleUnauthorized()
                     \* that had settled, at the moment it was made
    \* ---- withRetry ----
    retryConfig,     \* RetryConfig after defaults: maxAttempts, baseDelay, maxDelay, onRateLimit
    attempt,         \* the loop counter of withRetry
    lastError,       \* lastError of withRetry
    rtpc,            \* where withRetry stands: "start", "fn", "sleep", "done"
    fnCalls,         \* history: the clock at each invocation of fn
    errors,          \* history: what each failed invocation of fn threw
    slept,           \* history: the delays passed to sleep()
    rateLimited,     \* history: the arguments of the onRateLimit calls
    rtResult,        \* what the promise of withRetry settled to
    clock,           \* the timer clock, in ms
    \* ---- paginate / collectAll ----
    consumer,        \* who drives the generator: a "forAwait" loop or "collectAll"
    driver,          \* the generator: "paginate" or the iter() of a resource
    params,          \* the caller's params argument
    perPage,         \* the perPage argument
    pgpc,            \* the generator: "created", "fetching", "suspended", "done", "threw"
    cursor,          \* the local `cursor` of paginate
    page,            \* the local `page` of paginate
    idx,             \* how many items of `page` have been yielded
    fetches,         \* history: the arguments of the fetcher calls
    pages,           \* history: the pages the fetcher resolved to
    yielded,         \* the items handed to the consumer (collectAll's `results`)
    rejectedAt,      \* history: the number of the fetcher call that rejected, or 0
    pgError,         \* what the generator threw to its consumer
    caResult,        \* what the promise of collectAll settled to
    asked,           \* history: the next() calls the consumer has made
    \* ---- HttpClient.request ----
    fnpc,            \* the attempt closure: "idle", "auth" (awaits getAuthHeader), "fetch"
    fnCall,          \* the getAuthHeader() call of the current attempt
    apiCalls         \* history: the resource-endpoint requests and their response status

tmVars == <<config, accessToken, refreshToken, expiresAt, refreshPromise,
            rp, nextId, now, calls, pc, op, joined, result, concurrent, atCall>>

rtVars == <<retryConfig, attempt, lastError, rtpc, fnCalls, errors, slept, rateLimited,
            rtResult, clock>>

pgVars == <<consumer, driver, params, perPage, pgpc, cursor, page, idx, fetches, pages, yielded,
            rejectedAt, pgError, caResult, asked>>

clVars == <<fnpc, fnCall, apiCalls>>

vars == <<tmVars, rtVars, pgVars, clVars>>

-----------------------------------------------------------------------------
(* Bounds *)
NCalls     == 3        \* calls of the public operations in one run
MaxRefresh == 2        \* promises ensureRefreshed may create in one run
MaxTicks   == 1        \* clock steps of TickMs
MaxAttempts == 3       \* largest configured maxAttempts
JitterSteps == 3       \* Math.random() takes the values k / JitterSteps
MaxCursors == 2        \* distinct cursor strings the server hands out
MaxItems   == 2        \* longest data list of a page
MaxFetches == 3        \* fetcher calls in one traversal

Calls    == 1..NCalls
Promises == 1..MaxRefresh

-----------------------------------------------------------------------------
(* Values *)
None     == 0                 \* undefined / null
Infinity == -1                \* the "never expires" sentinel
CfgTok   == 1                 \* config.token
EnvTok   == 2                 \* process.env['HOSPITABLE_PAT']
CfgRef   == 3                 \* config.refreshToken
SrvTok(p) == 10 + p           \* access_token of the response to exchange p
RotRef(p) == 20 + p           \* refresh_token of the response to exchange p

MarginMs == 60000             \* the 60_000 of the constructor and needsRefresh
TickMs   == MarginMs          \* granularity of the model clock
ExpiresInChoices == {60, 120} \* expires_in (seconds) the server may answer
FailStatuses == {400, 500}    \* non-ok statuses of the authorization endpoint

Bearer(t) == <<"Bearer ", t>>  \* `Bearer ${this.accessToken}`

NoTokenError == [kind |-> "NoAccessToken"]
ConfigError  == [kind |-> "CannotRefresh"]
ResponseText(p) == <<"body of response", p>>   \* response.text() of exchange p
RefreshFailed(s, text) == [kind |-> "TokenRefreshFailed", status |-> s, text |-> text]

Configs ==
    [token : {None, CfgTok}, refreshToken : {None, CfgRef},
     clientId : BOOLEAN, clientSecret : BOOLEAN, envPat : {None, EnvTok}]

UnusedPromise == [phase |-> "unused", ok |-> FALSE, status |-> 0, refresh_token |-> None,
                  err |-> [kind |-> "none"]]

-----------------------------------------------------------------------------
(* TokenManager *)

\* mutant of Constructed: a manager without any token starts as never expiring
ConstructedNeverStale(cfg, t) ==
    IF cfg.token # None /\ cfg.refreshToken = None /\ ~cfg.clientId
    THEN [accessToken |-> cfg.token, refreshToken |-> None, expiresAt |-> Infinity]
    ELSE IF cfg.token # None
    THEN [accessToken |-> cfg.token, refreshToken |-> cfg.refreshToken,
          expiresAt |-> t + MarginMs]
    ELSE IF cfg.envPat # None
    THEN [accessToken |-> cfg.envPat, refreshToken |-> None, expiresAt |-> Infinity]
    ELSE [accessToken |-> None, refreshToken |-> None, expiresAt |-> Infinity]


\* mutant of Constructor: a static token gets the 60 s expiry of the OAuth branch
ConstructedNoSentinel(cfg, t) ==
    IF cfg.token # None
    THEN [accessToken |-> cfg.token, refreshToken |-> cfg.refreshToken,
          expiresAt |-> t + MarginMs]
    ELSE IF cfg.envPat # None
    THEN [accessToken |-> cfg.envPat, refreshToken |-> None, expiresAt |-> Infinity]
    ELSE [accessToken |-> None, refreshToken |-> None, expiresAt |-> 0]

\* mutant of Constructed: the OAuth branch starts with twice the margin
ConstructedLateExpiry(cfg, t) ==
    IF cfg.token # None /\ cfg.refreshToken = None /\ ~cfg.clientId
    THEN [accessToken |-> cfg.token, refreshToken |-> None, expiresAt |-> Infinity]
    ELSE IF cfg.token # None
    THEN [accessToken |-> cfg.token, refreshToken |-> cfg.refreshToken,
          expiresAt |-> t + 2 * MarginMs]
    ELSE IF cfg.envPat # None
    THEN [accessToken |-> cfg.envPat, refreshToken |-> None, expiresAt |-> Infinity]
    ELSE [accessToken |-> None, refreshToken |-> None, expiresAt |-> 0]


\* constructor: the three branches, as (accessToken, refreshToken, expiresAt)
Constructed(cfg, t) ==
    IF cfg.token # None /\ cfg.refreshToken = None /\ ~cfg.clientId
    THEN [accessToken |-> cfg.token, refreshToken |-> None, expiresAt |-> Infinity]
    ELSE IF cfg.token # None
    THEN [accessToken |-> cfg.token, refreshToken |-> cfg.refreshToken,
          expiresAt |-> t + MarginMs]
    ELSE IF cfg.envPat # None
    THEN [accessToken |-> cfg.envPat, refreshToken |-> None, expiresAt |-> Infinity]
    ELSE [accessToken |-> None, refreshToken |-> None, expiresAt |-> 0]

TMInit ==
    /\ config \in Configs
    /\ now = 0
    /\ accessToken = Constructed(config, now).accessToken
    /\ refreshToken = Constructed(config, now).refreshToken
    /\ expiresAt = Constructed(config, now).expiresAt
    /\ refreshPromise = None
    /\ rp = [p \in Promises |-> UnusedPromise]
    /\ nextId = 1
    /\ calls = <<>>
    /\ pc = [c \in Calls |-> "idle"]
    /\ op = [c \in Calls |-> "none"]
    /\ joined = [c \in Calls |-> None]
    /\ result = [c \in Calls |-> [ok |-> FALSE, value |-> <<>>, err |-> [kind |-> "none"]]]
    /\ concurrent = [c \in Calls |-> {}]
    /\ atCall = [c \in Calls |-> [refreshPromise |-> None, nextId |-> 0, afterForced |-> FALSE]]

\* mutant of needsRefresh: the 60 s safety margin is forgotten
needsRefreshNoMargin(exp, t) ==
    IF exp = Infinity THEN FALSE ELSE t >= exp


needsRefresh(exp, t) ==
    IF exp = Infinity THEN FALSE ELSE t >= exp - MarginMs

\* mutant of doRefreshStart: the configuration check looks at clientId only
doRefreshStartIdOnly(p) ==
    IF ~config.clientId
    THEN /\ rp' = [rp EXCEPT ![p] = [phase |-> "settled", ok |-> FALSE, status |-> 0, refresh_token |-> None,
                                     err |-> ConfigError]]
         /\ calls' = calls
    ELSE /\ rp' = [rp EXCEPT ![p] = [phase |-> "fetch", ok |-> FALSE, status |-> 0, refresh_token |-> None,
                                     err |-> [kind |-> "none"]]]
         /\ calls' = Append(calls,
                [id |-> p,
                 grant_type |-> IF refreshToken # None THEN "refresh_token"
                                ELSE "client_credentials",
                 refresh_token |-> refreshToken])

\* the synchronous part of doRefresh(): the configuration check, the body
\* built from this.refreshToken, and the fetch() that sends it
doRefreshStart(p) ==
    IF ~config.clientId \/ ~config.clientSecret
    THEN /\ rp' = [rp EXCEPT ![p] = [phase |-> "settled", ok |-> FALSE, status |-> 0, refresh_token |-> None,
                                     err |-> ConfigError]]
         /\ calls' = calls
    ELSE /\ rp' = [rp EXCEPT ![p] = [phase |-> "fetch", ok |-> FALSE, status |-> 0, refresh_token |-> None,
                                     err |-> [kind |-> "none"]]]
         /\ calls' = Append(calls,
                [id |-> p,
                 grant_type |-> IF refreshToken # None THEN "refresh_token"
                                ELSE "client_credentials",
                 refresh_token |-> refreshToken])

\* mutant of ensureRefreshed: no look at this.refreshPromise before doRefresh()
ensureRefreshedNoDedup(c) ==
    /\ nextId <= MaxRefresh
    /\ doRefreshStart(nextId)
    /\ refreshPromise' = nextId
    /\ joined' = [joined EXCEPT ![c] = nextId]
    /\ nextId' = nextId + 1

\* ensureRefreshed() up to its await, for call c
ensureRefreshed(c) ==
    IF refreshPromise # None
    THEN /\ joined' = [joined EXCEPT ![c] = refreshPromise]
         /\ UNCHANGED <<refreshPromise, rp, nextId, calls>>
    ELSE /\ nextId <= MaxRefresh
         /\ doRefreshStart(nextId)
         /\ refreshPromise' = nextId
         /\ joined' = [joined EXCEPT ![c] = nextId]
         /\ nextId' = nextId + 1

\* what getAuthHeader() returns or throws once past the refresh
AuthHeaderOutcome(tok) ==
    IF tok = None
    THEN [ok |-> FALSE, value |-> <<>>, err |-> NoTokenError]
    ELSE [ok |-> TRUE, value |-> Bearer(tok), err |-> [kind |-> "none"]]

\* the exchanges whose request is sent and whose response is not yet processed
InFlight == {p \in Promises : rp[p].phase \in {"fetch", "body"}}

\* calls are numbered in the order in which they are made
NextCall(c) ==
    /\ pc[c] = "idle"
    /\ \A d \in Calls : d < c => pc[d] # "idle"
    /\ concurrent' = [concurrent EXCEPT ![c] =
          {d \in Calls : pc[d] = "await" /\ joined[d] \in InFlight}]
    /\ atCall' = [atCall EXCEPT ![c] =
          [refreshPromise |-> refreshPromise, nextId |-> nextId,
           afterForced |-> /\ c > 1
                           /\ op[c - 1] = "handleUnauthorized"
                           /\ pc[c - 1] = "done"]]

\* getAuthHeader() on a state that does not need a refresh: no suspension
GetAuthHeaderFresh(c) ==
    /\ NextCall(c)
    /\ ~needsRefresh(expiresAt, now)
    /\ pc' = [pc EXCEPT ![c] = "done"]
    /\ op' = [op EXCEPT ![c] = "getAuthHeader"]
    /\ result' = [result EXCEPT ![c] = AuthHeaderOutcome(accessToken)]
    /\ joined' = [joined EXCEPT ![c] = None]
    /\ UNCHANGED <<config, accessToken, refreshToken, expiresAt, refreshPromise,
                   rp, nextId, now, calls>>

\* mutant of GetAuthHeaderStale: a refresh already in flight is not awaited
GetAuthHeaderStaleNoAwait(c) ==
    /\ NextCall(c)
    /\ needsRefresh(expiresAt, now)
    /\ op' = [op EXCEPT ![c] = "getAuthHeader"]
    /\ IF refreshPromise # None
       THEN /\ pc' = [pc EXCEPT ![c] = "done"]
            /\ joined' = [joined EXCEPT ![c] = refreshPromise]
            /\ result' = [result EXCEPT ![c] = AuthHeaderOutcome(accessToken)]
            /\ UNCHANGED <<refreshPromise, rp, nextId, calls>>
       ELSE /\ ensureRefreshed(c)
            /\ pc' = [pc EXCEPT ![c] = "await"]
            /\ result' = result
    /\ UNCHANGED <<config, accessToken, refreshToken, expiresAt, now>>

\* getAuthHeader() on a stale state, up to `await this.ensureRefreshed()`
GetAuthHeaderStale(c) ==
    /\ NextCall(c)
    /\ needsRefresh(expiresAt, now)
    /\ ensureRefreshed(c)
    /\ pc' = [pc EXCEPT ![c] = "await"]
    /\ op' = [op EXCEPT ![c] = "getAuthHeader"]
    /\ UNCHANGED <<config, accessToken, refreshToken, expiresAt, now, result>>

\* mutant of HandleUnauthorized: expiresAt is not reset, the refresh is entered
\* only when the state is stale anyway
HandleUnauthorizedIfStale(c) ==
    /\ NextCall(c)
    /\ op' = [op EXCEPT ![c] = "handleUnauthorized"]
    /\ IF needsRefresh(expiresAt, now)
       THEN /\ ensureRefreshed(c)
            /\ pc' = [pc EXCEPT ![c] = "await"]
            /\ result' = result
       ELSE /\ pc' = [pc EXCEPT ![c] = "done"]
            /\ result' = [result EXCEPT ![c] =
                  [ok |-> TRUE, value |-> <<>>, err |-> [kind |-> "none"]]]
            /\ UNCHANGED <<refreshPromise, rp, nextId, calls, joined>>
    /\ UNCHANGED <<config, accessToken, refreshToken, expiresAt, now>>

\* mutant of HandleUnauthorized: it starts an exchange of its own even when
\* one is pending
HandleUnauthorizedOwnExchange(c) ==
    /\ NextCall(c)
    /\ expiresAt' = 0
    /\ ensureRefreshedNoDedup(c)
    /\ pc' = [pc EXCEPT ![c] = "await"]
    /\ op' = [op EXCEPT ![c] = "handleUnauthorized"]
    /\ UNCHANGED <<config, accessToken, refreshToken, now, result>>


\* handleUnauthorized(), up to `await this.ensureRefreshed()`
HandleUnauthorized(c) ==
    /\ NextCall(c)
    /\ expiresAt' = 0
    /\ ensureRefreshed(c)
    /\ pc' = [pc EXCEPT ![c] = "await"]
    /\ op' = [op EXCEPT ![c] = "handleUnauthorized"]
    /\ UNCHANGED <<config, accessToken, refreshToken, now, result>>

\* a continuation is queued: the .finally callback of a settled doRefresh(),
\* or a call whose awaited promise has settled
MicrotaskPending ==
    \/ \E p \in Promises : rp[p].phase = "settled"
    \/ \E c \in Calls : pc[c] = "await" /\ rp[joined[c]].phase = "done"

\* the authorization endpoint answers the fetch() of exchange p
FetchResponds(p) ==
    /\ rp[p].phase = "fetch"
    /\ ~MicrotaskPending
    /\ \E ok \in BOOLEAN, s \in FailStatuses :
          rp' = [rp EXCEPT ![p].phase = "body", ![p].ok = ok,
                           ![p].status = IF ok THEN 200 ELSE s]
    /\ UNCHANGED <<concurrent, atCall, config, accessToken, refreshToken, expiresAt, refreshPromise,
                   nextId, now, calls, pc, op, joined, result>>

\* mutant of RefreshRejected: a non-ok response makes doRefresh() send the
\* request once more
RefreshRejectedRetries(p) ==
    /\ rp[p].phase = "body"
    /\ ~rp[p].ok
    /\ ~MicrotaskPending
    /\ rp' = [rp EXCEPT ![p].phase = "fetch"]
    /\ calls' = Append(calls, calls[Len(calls)])
    /\ UNCHANGED <<concurrent, atCall, config, accessToken, refreshToken, expiresAt,
                   refreshPromise, nextId, now, pc, op, joined, result>>


\* mutant of RefreshRejected: a non-ok response also drops the stored token
RefreshRejectedClearsToken(p) ==
    /\ rp[p].phase = "body"
    /\ ~rp[p].ok
    /\ ~MicrotaskPending
    /\ rp' = [rp EXCEPT ![p].phase = "settled",
                        ![p].err = RefreshFailed(rp[p].status, ResponseText(p))]
    /\ accessToken' = None
    /\ UNCHANGED <<concurrent, atCall, config, refreshToken, expiresAt, refreshPromise,
                   nextId, now, calls, pc, op, joined, result>>


\* response.text() arrives for a non-ok response: doRefresh() throws
RefreshRejected(p) ==
    /\ rp[p].phase = "body"
    /\ ~rp[p].ok
    /\ ~MicrotaskPending
    /\ rp' = [rp EXCEPT ![p].phase = "settled",
                        ![p].err = RefreshFailed(rp[p].status, ResponseText(p))]
    /\ UNCHANGED <<concurrent, atCall, config, accessToken, refreshToken, expiresAt, refreshPromise,
                   nextId, now, calls, pc, op, joined, result>>

\* mutant of RefreshStored: `this.refreshToken = data.refresh_token` without
\* the test for its presence
RefreshStoredAlwaysOverwrites(p) ==
    /\ rp[p].phase = "body"
    /\ rp[p].ok
    /\ ~MicrotaskPending
    /\ \E rot \in BOOLEAN, expires_in \in ExpiresInChoices :
          /\ accessToken' = SrvTok(p)
          /\ refreshToken' = IF rot THEN RotRef(p) ELSE None
          /\ expiresAt' = now + expires_in * 1000
          /\ rp' = [rp EXCEPT ![p].phase = "settled",
                              ![p].refresh_token = IF rot THEN RotRef(p) ELSE None]
    /\ UNCHANGED <<concurrent, atCall, config, refreshPromise, nextId, now, calls, pc, op,
                   joined, result>>


\* response.json() arrives for an ok response: doRefresh() stores it
RefreshStored(p) ==
    /\ rp[p].phase = "body"
    /\ rp[p].ok
    /\ ~MicrotaskPending
    /\ \E rot \in BOOLEAN, expires_in \in ExpiresInChoices :
          /\ accessToken' = SrvTok(p)
          /\ refreshToken' = IF rot THEN RotRef(p) ELSE refreshToken
          /\ expiresAt' = now + expires_in * 1000
          /\ rp' = [rp EXCEPT ![p].phase = "settled",
                              ![p].refresh_token = IF rot THEN RotRef(p) ELSE None]
    /\ UNCHANGED <<concurrent, atCall, config, refreshPromise, nextId, now, calls, pc, op, joined, result>>

\* mutant of RefreshFinally: the slot is cleared only after a success
RefreshFinallyKeepsFailed(p) ==
    /\ rp[p].phase = "settled"
    /\ refreshPromise' = IF rp[p].ok THEN None ELSE refreshPromise
    /\ rp' = [rp EXCEPT ![p].phase = "done"]
    /\ UNCHANGED <<concurrent, atCall, config, accessToken, refreshToken, expiresAt, nextId, now,
                   calls, pc, op, joined, result>>


\* the .finally callback of ensureRefreshed runs, then the promise the
\* callers await settles like doRefresh() did
RefreshFinally(p) ==
    /\ rp[p].phase = "settled"
    /\ refreshPromise' = None
    /\ rp' = [rp EXCEPT ![p].phase = "done"]
    /\ UNCHANGED <<concurrent, atCall, config, accessToken, refreshToken, expiresAt, nextId, now,
                   calls, pc, op, joined, result>>

\* mutant of Resume: a call that joined a failed refresh goes on as after a
\* success
ResumeIgnoresFailure(c) ==
    /\ pc[c] = "await"
    /\ rp[joined[c]].phase = "done"
    /\ \A d \in Calls : d < c /\ joined[d] = joined[c] => pc[d] # "await"
    /\ pc' = [pc EXCEPT ![c] = "done"]
    /\ result' = [result EXCEPT ![c] =
          IF ~rp[joined[c]].ok /\ atCall[c].refreshPromise = None
          THEN [ok |-> FALSE, value |-> <<>>, err |-> rp[joined[c]].err]
          ELSE IF op[c] = "getAuthHeader"
          THEN AuthHeaderOutcome(accessToken)
          ELSE [ok |-> TRUE, value |-> <<>>, err |-> [kind |-> "none"]]]
    /\ UNCHANGED <<concurrent, atCall, config, accessToken, refreshToken, expiresAt, refreshPromise,
                   rp, nextId, now, calls, op, joined>>


\* a call resumes after its await and settles; the calls awaiting one promise
\* resume in the order in which they began to await it
Resume(c) ==
    /\ pc[c] = "await"
    /\ rp[joined[c]].phase = "done"
    /\ \A d \in Calls : d < c /\ joined[d] = joined[c] => pc[d] # "await"
    /\ pc' = [pc EXCEPT ![c] = "done"]
    /\ result' = [result EXCEPT ![c] =
          IF ~rp[joined[c]].ok
          THEN [ok |-> FALSE, value |-> <<>>, err |-> rp[joined[c]].err]
          ELSE IF op[c] = "getAuthHeader"
          THEN AuthHeaderOutcome(accessToken)
          ELSE [ok |-> TRUE, value |-> <<>>, err |-> [kind |-> "none"]]]
    /\ UNCHANGED <<concurrent, atCall, config, accessToken, refreshToken, expiresAt, refreshPromise,
                   rp, nextId, now, calls, op, joined>>

TMOff ==
    /\ config = [token |-> None, refreshToken |-> None, clientId |-> FALSE,
                 clientSecret |-> FALSE, envPat |-> None]
    /\ now = 0
    /\ accessToken = None /\ refreshToken = None /\ expiresAt = 0
    /\ refreshPromise = None
    /\ rp = [p \in Promises |-> UnusedPromise]
    /\ nextId = 1
    /\ calls = <<>>
    /\ pc = [c \in Calls |-> "idle"]
    /\ op = [c \in Calls |-> "none"]
    /\ joined = [c \in Calls |-> None]
    /\ result = [c \in Calls |-> [ok |-> FALSE, value |-> <<>>, err |-> [kind |-> "none"]]]
    /\ concurrent = [c \in Calls |-> {}]
    /\ atCall = [c \in Calls |-> [refreshPromise |-> None, nextId |-> 0, afterForced |-> FALSE]]

\* TickMs elapse: not while queued continuations are running
Tick ==
    /\ now < MaxTicks * TickMs
    /\ ~MicrotaskPending
    /\ now' = now + TickMs
    /\ UNCHANGED <<concurrent, atCall, config, accessToken, refreshToken, expiresAt, refreshPromise,
                   rp, nextId, calls, pc, op, joined, result>>

-----------------------------------------------------------------------------
(* withRetry *)

NoStatus == 0                  \* the error has no numeric statusCode
NoHint   == -1                 \* the error has no numeric retryAfter
RETRYABLE_STATUS_CODES == {429, 500, 502, 503, 504}
DefaultRetryAfter == 60        \* extractRetryAfter's fallback

NoError == [cls |-> "none", id |-> 0, statusCode |-> NoStatus, retryAfter |-> NoHint,
            isError |-> FALSE, attempts |-> 0]

\* what fn may throw on its k-th invocation; id makes each thrown object distinct,
\* its message is "message of <id>"
Thrown(k) ==
    {[cls |-> "thrown", id |-> k, statusCode |-> s, retryAfter |-> NoHint,
      isError |-> TRUE, attempts |-> 0] : s \in {NoStatus, 404, 500, 502, 503, 504}}
    \cup
    {[cls |-> "thrown", id |-> k, statusCode |-> 429, retryAfter |-> h,
      isError |-> TRUE, attempts |-> 0] : h \in {NoHint, 0, 5, 120}}
    \cup
    {[cls |-> "thrown", id |-> k, statusCode |-> 429, retryAfter |-> 5,
      isError |-> FALSE, attempts |-> 0]}

\* new ServerError(message, statusCode, attempts); id names whose message it carries
ServerError(msgOf, statusCode, attempts) ==
    [cls |-> "ServerError", id |-> msgOf, statusCode |-> statusCode,
     retryAfter |-> NoHint, isError |-> TRUE, attempts |-> attempts]

Pow2(n) == IF n <= 0 THEN 1 ELSE 2 ^ n
Min(a, b) == IF a <= b THEN a ELSE b
Max(a, b) == IF a >= b THEN a ELSE b

\* mutant of jitteredDelay: the jitter is up to 50% of the exponential delay
jitteredDelayHalf(base, att, max, k) ==
    LET exponential == Min(base * Pow2(att - 1), max)
        jitter4N == exponential * 2 * (2 * k - JitterSteps)
    IN  Max(0, (exponential * 4 * JitterSteps + jitter4N) \div (4 * JitterSteps))


\* jitteredDelay with Math.random() = k / JitterSteps
jitteredDelay(base, att, max, k) ==
    LET exponential == Min(base * Pow2(att - 1), max)
        \* exponential * 0.25 * (2 * k / JitterSteps - 1)
        jitter4N == exponential * (2 * k - JitterSteps)
    IN  Max(0, (exponential * 4 * JitterSteps + jitter4N) \div (4 * JitterSteps))  \* whole ms

getStatusCode(error) == error.statusCode

extractRetryAfter(error) ==
    IF error.retryAfter # NoHint THEN error.retryAfter ELSE DefaultRetryAfter

\* the configurations tried: the defaults (1000, 60 000), a cap that binds from
\* the second attempt on (1600), and no base delay at all
RetryConfigs ==
    {c \in [maxAttempts : 0..MaxAttempts, baseDelay : {0, 1000},
            maxDelay : {1600, 60000}, onRateLimit : BOOLEAN] :
        c.baseDelay = 0 => c.maxDelay = 60000}

Pending == [kind |-> "pending", value |-> 0, error |-> NoError]
Resolved(v) == [kind |-> "resolved", value |-> v, error |-> NoError]
Rejected(e) == [kind |-> "rejected", value |-> 0, error |-> e]

RetryInit ==
    /\ retryConfig \in RetryConfigs
    /\ attempt = 1
    /\ lastError = NoError
    /\ rtpc = "start"
    /\ fnCalls = <<>>
    /\ errors = <<>>
    /\ slept = <<>>
    /\ rateLimited = <<>>
    /\ rtResult = Pending
    /\ clock = 0

RetryOff ==
    /\ retryConfig = [maxAttempts |-> 0, baseDelay |-> 0, maxDelay |-> 0,
                      onRateLimit |-> FALSE]
    /\ attempt = 1
    /\ lastError = NoError
    /\ rtpc = "off"
    /\ fnCalls = <<>>
    /\ errors = <<>>
    /\ slept = <<>>
    /\ rateLimited = <<>>
    /\ rtResult = Pending
    /\ clock = 0

\* `Request failed after ${maxAttempts} attempts`, as a message id
GenericMessage == 0

\* mutant of Exhausted: the error reports the first failure, not the last
ExhaustedFirstFailure(last) ==
    LET first == IF errors = <<>> THEN last ELSE errors[1] IN
    ServerError(IF first.isError THEN first.id ELSE GenericMessage,
                IF getStatusCode(first) = NoStatus THEN 500 ELSE getStatusCode(first),
                retryConfig.maxAttempts)


\* the code after the loop: the exhausted-retry error; the message is that of
\* lastError when it is an Error instance
Exhausted(last) ==
    ServerError(IF last.isError THEN last.id ELSE GenericMessage,
                IF getStatusCode(last) = NoStatus THEN 500 ELSE getStatusCode(last),
                retryConfig.maxAttempts)

\* mutant of WithRetryCalled: the loop counts from 0
WithRetryCalledFromZero ==
    /\ rtpc = "start"
    /\ attempt' = attempt - 1
    /\ rtpc' = "fn"
    /\ fnCalls' = Append(fnCalls, clock)
    /\ rtResult' = rtResult
    /\ UNCHANGED <<retryConfig, lastError, errors, slept, rateLimited, clock>>


\* withRetry is called: the loop is entered and fn invoked, or (maxAttempts < 1)
\* the loop is skipped
WithRetryCalled ==
    /\ rtpc = "start"
    /\ IF attempt <= retryConfig.maxAttempts
       THEN /\ rtpc' = "fn"
            /\ fnCalls' = Append(fnCalls, clock)
            /\ rtResult' = rtResult
       ELSE /\ rtpc' = "done"
            /\ fnCalls' = fnCalls
            /\ rtResult' = Rejected(Exhausted(lastError))
    /\ UNCHANGED <<retryConfig, attempt, lastError, errors, slept, rateLimited, clock>>

\* `return await fn()` with fn resolving to v
RetryReturn(v) ==
    /\ rtpc = "fn"
    /\ rtpc' = "done"
    /\ rtResult' = Resolved(v)
    /\ UNCHANGED <<retryConfig, attempt, lastError, fnCalls, errors, slept, rateLimited, clock>>

\* mutant of isFatal: only failures without a status code are fatal
isFatalOnlyWithoutStatus(statusCode) ==
    statusCode = NoStatus

\* mutant of isFatal: the classification is made on the first attempt only
isFatalOnFirstAttempt(statusCode) ==
    attempt = 1 /\ (statusCode = NoStatus \/ statusCode \notin RETRYABLE_STATUS_CODES)


\* `statusCode === null || !RETRYABLE_STATUS_CODES.has(statusCode)`
isFatal(statusCode) ==
    statusCode = NoStatus \/ statusCode \notin RETRYABLE_STATUS_CODES

\* mutant of isLastAttempt: the loop gives up one attempt early
isLastAttemptOffByOne(att, max) ==
    att + 1 >= max

\* mutant of isLastAttempt: the loop gives up one attempt late
isLastAttemptOneLate(att, max) ==
    att = max + 1


\* `attempt === maxAttempts`
isLastAttempt(att, max) ==
    att = max

\* the delay computed for retryable error e, with Math.random() = k / JitterSteps
delayFor(e, att, k) ==
    IF getStatusCode(e) = 429 /\ e.isError
    THEN IF extractRetryAfter(e) > 0
         THEN extractRetryAfter(e) * 1000
         ELSE jitteredDelay(retryConfig.baseDelay, att, retryConfig.maxDelay, k)
    ELSE jitteredDelay(retryConfig.baseDelay, att, retryConfig.maxDelay, k)

\* mutant of rateLimitCallsFor: the callback is told of every retryable failure
rateLimitCallsForAnyStatus(e, att) ==
    IF e.isError /\ retryConfig.onRateLimit
    THEN <<[retryAfter |-> extractRetryAfter(e), endpoint |-> "endpoint",
            attempt |-> att]>>
    ELSE <<>>


\* the onRateLimit calls made for retryable error e
rateLimitCallsFor(e, att) ==
    IF getStatusCode(e) = 429 /\ e.isError /\ retryConfig.onRateLimit
    THEN <<[retryAfter |-> extractRetryAfter(e), endpoint |-> "endpoint",
            attempt |-> att]>>
    ELSE <<>>

\* the catch block for error e, with Math.random() = k / JitterSteps
RetryCatch(e, k) ==
    /\ rtpc = "fn"
    /\ lastError' = e
    /\ errors' = Append(errors, e)
    /\ IF isFatal(getStatusCode(e))
       THEN \* throw error
            /\ rtpc' = "done"
            /\ rtResult' = Rejected(e)
            /\ UNCHANGED <<slept, rateLimited>>
       ELSE IF isLastAttempt(attempt, retryConfig.maxAttempts)
       THEN \* break
            /\ rtpc' = "done"
            /\ rtResult' = Rejected(Exhausted(e))
            /\ UNCHANGED <<slept, rateLimited>>
       ELSE /\ rtpc' = "sleep"
            /\ rtResult' = rtResult
            /\ slept' = Append(slept, delayFor(e, attempt, k))
            /\ rateLimited' = rateLimited \o rateLimitCallsFor(e, attempt)
    /\ UNCHANGED <<retryConfig, attempt, fnCalls, clock>>

\* fn resolves
FnResolves ==
    RetryReturn(Len(fnCalls))

\* fn rejects
FnRejects ==
    \E e \in Thrown(Len(fnCalls)), k \in 0..(JitterSteps - 1) : RetryCatch(e, k)

\* the timer of sleep(delay) fires (no earlier than the delay: the model takes
\* the earliest instant); the loop increments attempt and invokes fn again
SleepEnds ==
    /\ rtpc = "sleep"
    /\ clock' = clock + slept[Len(slept)]
    /\ attempt' = attempt + 1
    /\ rtpc' = "fn"
    /\ fnCalls' = Append(fnCalls, clock')
    /\ UNCHANGED <<retryConfig, lastError, errors, slept, rateLimited, rtResult>>

-----------------------------------------------------------------------------
(* paginate / collectAll *)

NullCursor == 0                \* nextCursor: null; as a fetcher argument: undefined
DefaultPerPage == 100          \* `perPage = 100`
Cursors == 1..MaxCursors

\* the k-th fetcher call resolves to len items; item i of it is Item(k, i)
Item(k, i) == 10 * k + i
PageData(k, len) == [i \in 1..len |-> Item(k, i)]
NoPage == [data |-> <<>>, nextCursor |-> NullCursor]

\* what the k-th fetcher call rejects with
FetchError(k) == [cls |-> "thrown", id |-> k, statusCode |-> NoStatus,
                  retryAfter |-> NoHint, isError |-> TRUE, attempts |-> 0]

CaPending == [kind |-> "pending", value |-> <<>>, error |-> NoError]
CaResolved(list) == [kind |-> "resolved", value |-> list, error |-> NoError]
CaRejected(e) == [kind |-> "rejected", value |-> <<>>, error |-> e]

\* the generators: paginate() and the iter() of the three resources
Drivers == {"paginate", "properties", "reservations", "reviews"}

\* the caller's params: a filter, and perPage (None: not given)
ParamsChoices == [tags : {"beach"}, perPage : {None, 50}]

\* mutant of paginateParams: `{cursor, perPage, ...params}`
paginateParamsCallerWins(prm, c, pp) ==
    [tags |-> prm.tags, cursor |-> c,
     perPage |-> IF prm.perPage # None THEN prm.perPage ELSE pp]

\* paginate: `{...params, cursor: cursor ?? undefined, perPage}`
paginateParams(prm, c, pp) ==
    [tags |-> prm.tags, cursor |-> c, perPage |-> pp]

\* mutant of iterParams: the local cursor is never put into the list params
iterParamsNoCursor(prm, c) ==
    [tags |-> prm.tags, cursor |-> NullCursor, perPage |-> prm.perPage]


\* iter(): `{...params}`, then `.cursor = cursor` when the local cursor is set
iterParams(prm, c) ==
    [tags |-> prm.tags, cursor |-> c, perPage |-> prm.perPage]

\* the argument of the fetcher / list() call of generator drv
CallParams(drv, prm, c, pp) ==
    IF drv = "paginate" THEN paginateParams(prm, c, pp) ELSE iterParams(prm, c)

UndefinedCursor == -1          \* the local cursor of reservations.iter(): undefined

\* the value of the local cursor that means no cursor: `let cursor = null`,
\* and `let cursor: string | undefined` in reservations.iter()
noCursor(drv) ==
    IF drv = "reservations" THEN UndefinedCursor ELSE NullCursor

\* the local cursor after a page: `cursor = page.meta.nextCursor`, and
\* `cursor = page.meta.nextCursor ?? undefined` in reservations.iter()
localCursor(drv, next) ==
    IF drv = "reservations"
    THEN IF next = NullCursor THEN UndefinedCursor ELSE next
    ELSE next

\* the cursor of the call: `cursor ?? undefined` in paginate, set only
\* `if (cursor !== null)` / `if (cursor !== undefined)` in iter()
cursorArg(drv, cur) ==
    IF cur = noCursor(drv) THEN NullCursor ELSE cur

PagInit ==
    /\ driver \in Drivers
    /\ cursor = noCursor(driver)
    /\ consumer \in IF driver = "paginate" THEN {"forAwait", "collectAll"}
                    ELSE {"forAwait"}
    /\ params \in ParamsChoices
    /\ perPage \in IF driver = "paginate" THEN {DefaultPerPage, 20}
                   ELSE {DefaultPerPage}
    /\ pgpc = "created"
    /\ page = NoPage
    /\ idx = 0
    /\ fetches = <<>>
    /\ pages = <<>>
    /\ yielded = <<>>
    /\ rejectedAt = 0
    /\ pgError = NoError
    /\ caResult = CaPending
    /\ asked = 0

PagOff ==
    /\ consumer = "none"
    /\ driver = "paginate"
    /\ params = [tags |-> "beach", perPage |-> None]
    /\ perPage = DefaultPerPage
    /\ pgpc = "off"
    /\ cursor = NullCursor
    /\ page = NoPage
    /\ idx = 0
    /\ fetches = <<>>
    /\ pages = <<>>
    /\ yielded = <<>>
    /\ rejectedAt = 0
    /\ pgError = NoError
    /\ caResult = CaPending
    /\ asked = 0

\* mutant of hasMore: an empty page ends the traversal too
hasMoreUnlessEmpty(p) ==
    p.nextCursor # NullCursor /\ p.data # <<>>

\* mutant of hasMore: a cursor that was already used ends the traversal
hasMoreUnlessSeen(p) ==
    /\ p.nextCursor # NullCursor
    /\ \A j \in 1..Len(fetches) : fetches[j].cursor # p.nextCursor


\* `while (cursor !== null)`, with cursor = page.meta.nextCursor
hasMore(p) ==
    p.nextCursor # NullCursor

\* the while test of generator drv after page p: `cursor !== null`, and
\* `cursor !== undefined` in reservations.iter()
loopContinues(drv, p) ==
    IF drv = "reservations" THEN localCursor(drv, p.nextCursor) # UndefinedCursor
    ELSE hasMore(p)

\* mutant of collectAllOnThrow: the items gathered so far are returned
collectAllOnThrowPartial(results, e) ==
    CaResolved(results)

\* collectAll when the for-await loop throws e: the promise rejects with e
collectAllOnThrow(results, e) ==
    CaRejected(e)

\* mutant of collectAllOnDone: `results.unshift(item)` in place of push
collectAllOnDoneReversed(results) ==
    CaResolved([i \in 1..Len(results) |-> results[Len(results) + 1 - i]])


\* collectAll when the for-await loop ends: `return results`
collectAllOnDone(results) ==
    CaResolved(results)

\* `await fetcher({...})` of paginate, `await this.list({...})` of iter()
CallFetcher(c) ==
    /\ Len(fetches) < MaxFetches
    /\ fetches' = Append(fetches, CallParams(driver, params, cursorArg(driver, c), perPage))
    /\ pgpc' = "fetching"

\* the end of a page's for-loop: `cursor = page.meta.nextCursor`, then the
\* while test: the next fetch, or the end of the sequence
AfterPage(p) ==
    /\ cursor' = localCursor(driver, p.nextCursor)
    /\ IF loopContinues(driver, p)
       THEN /\ CallFetcher(localCursor(driver, p.nextCursor))
            /\ caResult' = caResult
       ELSE /\ pgpc' = "done"
            /\ fetches' = fetches
            /\ caResult' = IF consumer = "collectAll" THEN collectAllOnDone(yielded)
                           ELSE caResult

\* the consumer asks for the first item: the generator body starts
ConsumerFirstNext ==
    /\ pgpc = "created"
    /\ CallFetcher(cursor)
    /\ asked' = 1
    /\ UNCHANGED <<consumer, driver, params, perPage, cursor, page, idx, pages, yielded, rejectedAt,
                   pgError, caResult>>

\* the fetcher resolves to a page of len items and cursor next
FetcherResolves(len, next) ==
    /\ pgpc = "fetching"
    /\ LET p == [data |-> PageData(Len(fetches), len), nextCursor |-> next] IN
       /\ page' = p
       /\ pages' = Append(pages, p)
       /\ IF len > 0
          THEN \* yield the first item
               /\ idx' = 1
               /\ yielded' = Append(yielded, p.data[1])
               /\ pgpc' = "suspended"
               /\ UNCHANGED <<cursor, fetches, caResult>>
          ELSE /\ idx' = 0
               /\ yielded' = yielded
               /\ AfterPage(p)
    /\ UNCHANGED <<consumer, driver, params, perPage, rejectedAt, pgError, asked>>

\* mutant of FetcherRejects: the failure ends the sequence silently
FetcherRejectsSwallowed ==
    /\ pgpc = "fetching"
    /\ rejectedAt' = Len(fetches)
    /\ pgpc' = "done"
    /\ caResult' = IF consumer = "collectAll" THEN collectAllOnDone(yielded)
                   ELSE caResult
    /\ UNCHANGED <<consumer, driver, params, perPage, cursor, page, idx, fetches, pages, yielded, pgError, asked>>

\* the fetcher rejects: the await throws out of the generator
FetcherRejects ==
    /\ pgpc = "fetching"
    /\ rejectedAt' = Len(fetches)
    /\ pgpc' = "threw"
    /\ pgError' = FetchError(Len(fetches))
    /\ caResult' = IF consumer = "collectAll"
                   THEN collectAllOnThrow(yielded, FetchError(Len(fetches)))
                   ELSE caResult
    /\ UNCHANGED <<consumer, driver, params, perPage, cursor, page, idx, fetches, pages, yielded, asked>>

\* mutant of ConsumerNext: the next page is fetched as soon as the last item of
\* a page is handed out
ConsumerNextPrefetch ==
    /\ pgpc = "suspended"
    /\ asked' = asked + 1
    /\ IF idx < Len(page.data)
       THEN /\ idx' = idx + 1
            /\ yielded' = Append(yielded, page.data[idx + 1])
            /\ IF idx + 1 = Len(page.data) /\ hasMore(page)
               THEN /\ cursor' = page.nextCursor
                    /\ CallFetcher(page.nextCursor)
                    /\ caResult' = caResult
               ELSE UNCHANGED <<pgpc, cursor, fetches, caResult>>
       ELSE /\ AfterPage(page)
            /\ UNCHANGED <<idx, yielded>>
    /\ UNCHANGED <<consumer, driver, params, perPage, page, pages, rejectedAt, pgError>>


\* the consumer asks for the next item: the generator resumes after its yield
ConsumerNext ==
    /\ pgpc = "suspended"
    /\ asked' = asked + 1
    /\ IF idx < Len(page.data)
       THEN /\ idx' = idx + 1
            /\ yielded' = Append(yielded, page.data[idx + 1])
            /\ UNCHANGED <<pgpc, cursor, fetches, caResult>>
       ELSE /\ AfterPage(page)
            /\ UNCHANGED <<idx, yielded>>
    /\ UNCHANGED <<consumer, driver, params, perPage, page, pages, rejectedAt, pgError>>

-----------------------------------------------------------------------------
(* HospitableClient: HttpClient.request over withRetry and the TokenManager *)

ApiStatuses == {200, 401, 404, 429, 503}

\* what response.json() of a non-ok response does: it resolves to an object
\* with a message, or it throws (the body is not JSON)
ErrorBodies == {"json", "notJson"}

\* `try { errorBody = await response.json() } catch {}`: the parsed object, or {}
parsedErrorBody(k, body) ==
    IF body = "json" THEN <<"body of response", k>> ELSE <<>>

\* `errorBody['message'] ?? \`HTTP ${response.status}\``
errorMessage(k, status, body) ==
    IF body = "json" THEN <<"message of response", k>> ELSE <<"HTTP ", status>>

\* mutant of HttpError: the failure to parse the body is what is thrown, an
\* error without statusCode
HttpErrorUnlessParseFails(k, status, body) ==
    [cls |-> "HttpError", id |-> k,
     statusCode |-> IF body = "json" THEN status ELSE NoStatus,
     retryAfter |-> NoHint,
     isError |-> TRUE, attempts |-> 1,
     message |-> errorMessage(k, status, body),
     body |-> parsedErrorBody(k, body)]

\* new HttpError(response.status, message, requestId, errorBody), thrown by the
\* k-th resource request: it has a statusCode, attempts = 1 and no retryAfter
HttpError(k, status, body) ==
    [cls |-> "HttpError", id |-> k, statusCode |-> status, retryAfter |-> NoHint,
     isError |-> TRUE, attempts |-> 1,
     message |-> errorMessage(k, status, body),
     body |-> parsedErrorBody(k, body)]

\* mutant of AuthError: the error of the token manager carries the status 500
AuthErrorWithStatus(c) ==
    [cls |-> result[c].err.kind, id |-> c, statusCode |-> 500,
     retryAfter |-> NoHint, isError |-> TRUE, attempts |-> 0]


\* the Error getAuthHeader() call c rejected with, as withRetry's catch sees it:
\* an Error without statusCode
AuthError(c) ==
    [cls |-> result[c].err.kind, id |-> c, statusCode |-> NoStatus,
     retryAfter |-> NoHint, isError |-> TRUE, attempts |-> 0]

ClientOff ==
    /\ fnpc = "off"
    /\ fnCall = None
    /\ apiCalls = <<>>

\* new HospitableClient(config): the TokenManager and the HttpClient are built;
\* config.retry is handed to withRetry
\* the retry configurations the client is constructed with (config.retry):
\* any number of attempts, no backoff base, the rate-limit callback set
ClientRetryConfigs ==
    {c \in RetryConfigs : c.baseDelay = 0 /\ c.maxDelay = 60000 /\ c.onRateLimit}

ClientInit ==
    /\ TMInit
    /\ RetryInit
    /\ retryConfig \in ClientRetryConfigs
    /\ fnpc = "idle"
    /\ fnCall = None
    /\ apiCalls = <<>>

\* the attempt closure starts: `await this.config.getAuthHeader()` calls
\* tokenManager.getAuthHeader()
AttemptStarts ==
    /\ fnpc' = "auth"
    /\ \E c \in Calls :
          /\ GetAuthHeaderFresh(c) \/ GetAuthHeaderStale(c)
          /\ fnCall' = c
    /\ apiCalls' = apiCalls

\* HttpClient.request: withRetry is called and invokes the closure
ClientRequest ==
    /\ WithRetryCalled
    /\ IF attempt <= retryConfig.maxAttempts
       THEN AttemptStarts
       ELSE UNCHANGED <<tmVars, clVars>>
    /\ UNCHANGED pgVars

\* getAuthHeader() has resolved: the closure sends the resource request with
\* that Authorization header
AttemptFetches ==
    /\ rtpc = "fn" /\ fnpc = "auth"
    /\ pc[fnCall] = "done" /\ result[fnCall].ok
    /\ fnpc' = "fetch"
    /\ apiCalls' = Append(apiCalls, [attempt |-> attempt,
                                    Authorization |-> result[fnCall].value,
                                    status |-> 0])
    /\ UNCHANGED <<tmVars, rtVars, pgVars, fnCall>>

\* getAuthHeader() has rejected: the closure rejects with that error, which
\* withRetry catches
AttemptAuthFails ==
    /\ fnpc = "auth"
    /\ pc[fnCall] = "done" /\ ~result[fnCall].ok
    /\ \E k \in 0..(JitterSteps - 1) : RetryCatch(AuthError(fnCall), k)
    /\ fnpc' = "idle"
    /\ UNCHANGED <<tmVars, pgVars, fnCall, apiCalls>>

\* the resource endpoint answers with `status`: the closure returns the body
\* or throws an HttpError, which withRetry catches
ApiResponds(status) ==
    /\ rtpc = "fn" /\ fnpc = "fetch"
    /\ ~MicrotaskPending
    /\ apiCalls' = [apiCalls EXCEPT ![Len(apiCalls)].status = status]
    /\ IF status = 200
       THEN RetryReturn(Len(apiCalls))
       ELSE \E k \in 0..(JitterSteps - 1), body \in ErrorBodies :
               RetryCatch(HttpError(Len(apiCalls), status, body), k)
    /\ fnpc' = "idle"
    /\ UNCHANGED <<tmVars, pgVars, fnCall>>

\* the retry timer fires: the next iteration invokes the closure again
ClientRetries ==
    /\ SleepEnds
    /\ AttemptStarts
    /\ UNCHANGED pgVars

-----------------------------------------------------------------------------
(* Specifications *)

TMNext ==
    \/ \E c \in Calls : GetAuthHeaderFresh(c) /\ UNCHANGED <<rtVars, pgVars, clVars>>
    \/ \E c \in Calls : GetAuthHeaderStale(c) /\ UNCHANGED <<rtVars, pgVars, clVars>>
    \/ \E c \in Calls : HandleUnauthorized(c) /\ UNCHANGED <<rtVars, pgVars, clVars>>
    \/ \E p \in Promises : FetchResponds(p) /\ UNCHANGED <<rtVars, pgVars, clVars>>
    \/ \E p \in Promises : RefreshRejected(p) /\ UNCHANGED <<rtVars, pgVars, clVars>>
    \/ \E p \in Promises : RefreshStored(p) /\ UNCHANGED <<rtVars, pgVars, clVars>>
    \/ \E p \in Promises : RefreshFinally(p) /\ UNCHANGED <<rtVars, pgVars, clVars>>
    \/ \E c \in Calls : Resume(c) /\ UNCHANGED <<rtVars, pgVars, clVars>>
    \/ Tick /\ UNCHANGED <<rtVars, pgVars, clVars>>

InitTM == TMInit /\ RetryOff /\ PagOff /\ ClientOff

SpecTM == InitTM /\ [][TMNext]_vars

\* a manager with a token, a refresh token and a client id, with or without the
\* client secret: its refreshes can fail before and after the request
InitTMFair ==
    /\ InitTM
    /\ config.token = CfgTok /\ config.refreshToken = CfgRef
    /\ config.clientId /\ config.envPat = None

\* the continuations the event loop has queued are run: the .finally callback
\* of a settled doRefresh() and the callers awaiting a settled promise
SpecTMFair ==
    /\ InitTMFair
    /\ [][TMNext]_vars
    /\ WF_vars(\E p \in Promises : RefreshFinally(p) /\ UNCHANGED <<rtVars, pgVars, clVars>>)
    /\ WF_vars(\E c \in Calls : Resume(c) /\ UNCHANGED <<rtVars, pgVars, clVars>>)

RetryNext ==
    \/ WithRetryCalled /\ UNCHANGED <<tmVars, pgVars, clVars>>
    \/ FnResolves /\ UNCHANGED <<tmVars, pgVars, clVars>>
    \/ FnRejects /\ UNCHANGED <<tmVars, pgVars, clVars>>
    \/ SleepEnds /\ UNCHANGED <<tmVars, pgVars, clVars>>

InitRetry == RetryInit /\ TMOff /\ PagOff /\ ClientOff

SpecRetry == InitRetry /\ [][RetryNext]_vars

PagNext ==
    \/ ConsumerFirstNext /\ UNCHANGED <<tmVars, rtVars, clVars>>
    \/ \E len \in 0..MaxItems, next \in {NullCursor} \cup Cursors :
          FetcherResolves(len, next) /\ UNCHANGED <<tmVars, rtVars, clVars>>
    \/ FetcherRejects /\ UNCHANGED <<tmVars, rtVars, clVars>>
    \/ ConsumerNext /\ UNCHANGED <<tmVars, rtVars, clVars>>

InitPag == PagInit /\ TMOff /\ RetryOff /\ ClientOff

SpecPag == InitPag /\ [][PagNext]_vars

ClientNext ==
    \/ ClientRequest
    \/ AttemptFetches
    \/ AttemptAuthFails
    \/ \E status \in ApiStatuses : ApiResponds(status)
    \/ ClientRetries
    \/ \E p \in Promises : FetchResponds(p) /\ UNCHANGED <<rtVars, pgVars, clVars>>
    \/ \E p \in Promises : RefreshRejected(p) /\ UNCHANGED <<rtVars, pgVars, clVars>>
    \/ \E p \in Promises : RefreshStored(p) /\ UNCHANGED <<rtVars, pgVars, clVars>>
    \/ \E p \in Promises : RefreshFinally(p) /\ UNCHANGED <<rtVars, pgVars, clVars>>
    \/ \E c \in Calls : Resume(c) /\ UNCHANGED <<rtVars, pgVars, clVars>>
    \/ Tick /\ UNCHANGED <<rtVars, pgVars, clVars>>

InitClient == ClientInit /\ PagOff

SpecClient == InitClient /\ [][ClientNext]_vars

-----------------------------------------------------------------------------
(* Properties of withRetry, checked under SpecRetry *)

AllRetryable(errs) ==
    \A i \in 1..Len(errs) : errs[i].statusCode \in RETRYABLE_STATUS_CODES

\* C3: with maxAttempts = n >= 1 and fn failing on every invocation with a status
\* in {429, 500, 502, 503, 504}, withRetry invokes fn exactly n times and rejects
\* with a ServerError whose attempts is n.
C3_ExhaustedAfterMaxAttempts ==
    ( /\ rtpc = "done"
      /\ retryConfig.maxAttempts >= 1
      /\ rtResult.kind = "rejected"
      /\ AllRetryable(errors) )
    => /\ Len(fnCalls) = retryConfig.maxAttempts
       /\ Len(errors) = retryConfig.maxAttempts
       /\ rtResult.error.cls = "ServerError"
       /\ rtResult.error.attempts = retryConfig.maxAttempts

\* three retryable failures of differing status exhaust maxAttempts = 3
C3_Witness ==
    /\ rtpc = "done"
    /\ retryConfig.maxAttempts = 3
    /\ Len(errors) = 3 /\ AllRetryable(errors)
    /\ errors[1].statusCode # errors[2].statusCode
    /\ rtResult.kind = "rejected" /\ rtResult.error.attempts = 3

\* C4: when the first invocation of fn fails with a status code outside
\* {429, 500, 502, 503, 504}, withRetry has invoked fn exactly once, has slept
\* for no delay, and rejects with the very object fn threw.
C4_NonRetryablePropagatesAtOnce ==
    ( /\ Len(errors) >= 1
      /\ errors[1].statusCode # NoStatus
      /\ errors[1].statusCode \notin RETRYABLE_STATUS_CODES )
    => /\ rtpc = "done"
       /\ Len(fnCalls) = 1
       /\ Len(errors) = 1
       /\ slept = <<>>
       /\ rateLimited = <<>>
       /\ rtResult = Rejected(errors[1])

\* a 404 on the first invocation, with retries configured
C4_Witness ==
    /\ retryConfig.maxAttempts = 3
    /\ Len(errors) = 1 /\ errors[1].statusCode = 404
    /\ rtResult = Rejected(errors[1])

\* C10: when an attempt that is not the last fails with status 429 and the failure
\* carries a wait hint of h > 0 seconds, withRetry sleeps at least h * 1000 ms
\* before the next invocation, and onRateLimit (when configured) is called exactly
\* once for that failure, with retryAfter = h, the endpoint and the attempt number.
C10_HintedRateLimitHonoured ==
    \A i \in 1..Len(errors) :
        ( /\ errors[i].statusCode = 429
          /\ errors[i].retryAfter > 0
          /\ i < retryConfig.maxAttempts )
        => /\ Len(slept) >= i
           /\ slept[i] >= errors[i].retryAfter * 1000
           /\ Len(fnCalls) > i => fnCalls[i + 1] - fnCalls[i] >= errors[i].retryAfter * 1000
           /\ retryConfig.onRateLimit =>
                 /\ Cardinality({j \in 1..Len(rateLimited) : rateLimited[j].attempt = i}) = 1
                 /\ \E j \in 1..Len(rateLimited) :
                       rateLimited[j] = [retryAfter |-> errors[i].retryAfter,
                                         endpoint |-> "endpoint", attempt |-> i]

-----------------------------------------------------------------------------
(* Properties of paginate and collectAll, checked under SpecPag *)

RECURSIVE Flatten(_)
Flatten(ps) ==
    IF ps = <<>> THEN <<>>
    ELSE Flatten(SubSeq(ps, 1, Len(ps) - 1)) \o ps[Len(ps)].data

\* C5: no fetcher call follows a page whose nextCursor is null, and a traversal
\* consumed to its end has fetched N >= 1 pages with exactly N fetcher calls,
\* the last page being the one with the null nextCursor, and has yielded exactly
\* the concatenation of the pages' data lists in page order and item order
\* (nothing at all for an empty first page with a null cursor).
C5_YieldsConcatenationWithOneFetchPerPage ==
    /\ \A i \in 1..(Len(pages) - 1) : pages[i].nextCursor # NullCursor
    /\ pgpc = "done" =>
          /\ Len(pages) >= 1
          /\ pages[Len(pages)].nextCursor = NullCursor
          /\ Len(fetches) = Len(pages)
          /\ yielded = Flatten(pages)

\* the chain [a, b] -> cursor, [c, d] -> null consumed to its end
C5_Witness ==
    /\ pgpc = "done"
    /\ Len(pages) = 2 /\ Len(fetches) = 2
    /\ yielded = <<Item(1, 1), Item(1, 2), Item(2, 1), Item(2, 2)>>

\* C6: if the fetcher rejects on its k-th call, k >= 2, the consumer has been
\* handed every item of pages 1..k-1, in order, when the generator throws; what
\* it throws is the fetcher's error itself; and the failing call is the last
\* fetcher call.
C6_FailurePropagatesAfterEarlierPages ==
    rejectedAt >= 2 =>
        /\ pgpc = "threw"
        /\ pgError = FetchError(rejectedAt)
        /\ Len(pages) = rejectedAt - 1
        /\ yielded = Flatten(pages)
        /\ Len(fetches) = rejectedAt

\* the second fetch rejects after a first page of two items
C6_Witness ==
    /\ rejectedAt = 2
    /\ pgpc = "threw"
    /\ yielded = <<Item(1, 1), Item(1, 2)>>

\* C7: if the fetcher rejects on any call, collectAll rejects with that error and
\* hands no list to its caller, whatever `results` had gathered.
C7_CollectAllRejectsWithoutPartialList ==
    (consumer = "collectAll" /\ rejectedAt >= 1) =>
        /\ caResult.kind = "rejected"
        /\ caResult.error = FetchError(rejectedAt)
        /\ caResult.value = <<>>

\* collectAll had gathered a page of items when the second fetch rejected
C7_Witness ==
    /\ consumer = "collectAll"
    /\ rejectedAt = 2
    /\ Len(yielded) = 2
    /\ caResult.kind = "rejected"

-----------------------------------------------------------------------------
(* Properties of the TokenManager, checked under SpecTM *)

CallsOf(p) == {i \in 1..Len(calls) : calls[i].id = p}

\* C1: in every reachable state at most one authorization-endpoint exchange
\* (a doRefresh whose request is sent and not yet answered and processed) is
\* in flight, whatever calls of getAuthHeader and handleUnauthorized were made.
C1_AtMostOneExchangeInFlight ==
    Cardinality(InFlight) <= 1

\* two calls, one of each operation, share the exchange in flight
C1_Witness ==
    \E c1, c2 \in Calls :
        /\ op[c1] = "getAuthHeader" /\ op[c2] = "handleUnauthorized"
        /\ pc[c1] = "await" /\ pc[c2] = "await"
        /\ joined[c1] \in InFlight /\ joined[c2] = joined[c1]

\* C2: getAuthHeader() calls made while an earlier getAuthHeader() call awaits
\* its exchange in flight join that exchange; when it succeeds, one
\* authorization-endpoint request was sent for them and each of them resolves
\* to 'Bearer ' + the access_token of that exchange's response.
C2_ConcurrentCallsShareOneExchange ==
    \A c1, c2 \in Calls :
        ( /\ c1 \in concurrent[c2]
          /\ op[c1] = "getAuthHeader" /\ op[c2] = "getAuthHeader"
          /\ pc[c1] = "done" /\ pc[c2] = "done"
          /\ rp[joined[c1]].ok )
        => /\ joined[c2] = joined[c1]
           /\ Cardinality(CallsOf(joined[c1])) = 1
           /\ result[c1].ok /\ result[c2].ok
           /\ result[c1].value = Bearer(SrvTok(joined[c1]))
           /\ result[c2].value = Bearer(SrvTok(joined[c1]))

\* two concurrent getAuthHeader() calls have both resolved after one exchange
C2_Witness ==
    \E c1, c2 \in Calls :
        /\ c1 \in concurrent[c2]
        /\ op[c1] = "getAuthHeader" /\ op[c2] = "getAuthHeader"
        /\ pc[c1] = "done" /\ pc[c2] = "done"
        /\ rp[joined[c1]].ok
        /\ result[c1].ok /\ result[c2] = result[c1]
        /\ Len(calls) = 1

\* a static personal token: no refresh token, no client id
IsStaticToken(cfg) == cfg.token # None /\ cfg.refreshToken = None /\ ~cfg.clientId

\* C9: a manager built from a static token with no refresh token and no client
\* id never sends a request to the authorization endpoint, and every
\* getAuthHeader() call of a run of getAuthHeader() calls returns
\* 'Bearer ' + that token.
C9_StaticTokenNeverRefreshes ==
    IsStaticToken(config) =>
        /\ calls = <<>>
        /\ \A c \in Calls :
              ( /\ pc[c] = "done" /\ op[c] = "getAuthHeader"
                /\ \A d \in Calls : d < c => op[d] = "getAuthHeader" )
              => result[c].ok /\ result[c].value = Bearer(config.token)

\* every call of the run was getAuthHeader() on a static token, over time
C9_Witness ==
    /\ IsStaticToken(config)
    /\ now > 0
    /\ \A c \in Calls : pc[c] = "done" /\ op[c] = "getAuthHeader" /\ result[c].ok

-----------------------------------------------------------------------------
(* Properties of HospitableClient *)

\* the credentials doRefresh needs: client id, client secret and a refresh token
OAuthConfigured(cfg) == cfg.clientId /\ cfg.clientSecret /\ cfg.refreshToken # None

\* C8: when a resource request is answered 401 and OAuth credentials are
\* configured, the client calls handleUnauthorized and then retries the request
\* exactly once; when the forced refresh succeeds there are two resource
\* requests, and a successful retry gives the caller the retried request's result.
C8_UnauthorizedForcesRefreshAndOneRetry ==
    (/\ OAuthConfigured(config)
     /\ rtpc = "done"
     /\ Len(apiCalls) >= 1
     /\ apiCalls[1].status = 401)
    => /\ \E c \in Calls : op[c] = "handleUnauthorized"
       /\ (\A p \in Promises : rp[p].phase # "unused" => rp[p].phase = "done" /\ rp[p].ok)
             => /\ Len(apiCalls) = 2
                /\ apiCalls[2].status = 200 => rtResult = Resolved(2)

-----------------------------------------------------------------------------
(* Properties of TokenManager: refresh failures and forced refresh *)

Failed(e) == [ok |-> FALSE, value |-> <<>>, err |-> e]

\* C11: when the client id or the client secret is not configured, every refresh
\* that is required fails at once with the configuration error and no request is
\* sent to the authorization endpoint, whether the refresh was entered through
\* getAuthHeader() or through handleUnauthorized().
C11_MissingCredentialsFailWithoutNetwork ==
    (~config.clientId \/ ~config.clientSecret)
    => /\ calls = <<>>
       /\ \A p \in Promises :
             rp[p].phase # "unused"
             => rp[p].phase \in {"settled", "done"} /\ ~rp[p].ok /\ rp[p].err = ConfigError
       /\ \A c \in Calls :
             pc[c] = "done" /\ joined[c] # None => result[c] = Failed(ConfigError)

C11_Witness ==
    /\ ~config.clientSecret
    /\ config.clientId
    /\ \E c, d \in Calls :
          /\ op[c] = "getAuthHeader" /\ op[d] = "handleUnauthorized"
          /\ pc[c] = "done" /\ pc[d] = "done"
          /\ result[c] = Failed(ConfigError) /\ result[d] = Failed(ConfigError)
          /\ joined[c] # joined[d]

\* an exchange was begun at or after the moment call h was made
ExchangeBegunSince(h) ==
    \E i \in 1..Len(calls) : calls[i].id >= atCall[h].nextId

\* handleUnauthorized() call h has settled, then getAuthHeader() call g is made
\* and has settled
ForcedThenAsked(h, g) ==
    /\ g = h + 1 /\ atCall[g].afterForced
    /\ op[h] = "handleUnauthorized"
    /\ op[g] = "getAuthHeader" /\ pc[g] = "done"
    /\ config.clientId /\ config.clientSecret

\* C12: with client id and secret configured, handleUnauthorized() followed by
\* getAuthHeader() always triggers a new refresh exchange: a request to the
\* authorization endpoint that begins after handleUnauthorized() was called.
C12_ForcedRefreshAlwaysStartsNewExchange ==
    \A h, g \in Calls : ForcedThenAsked(h, g) => ExchangeBegunSince(h)

\* C12 as amended: the same, when no refresh is pending (this.refreshPromise is
\* unset) at the moment handleUnauthorized() is called; a pending refresh is
\* joined instead.
C12_ForcedRefreshStartsNewExchangeUnlessJoined ==
    \A h, g \in Calls :
        ForcedThenAsked(h, g) /\ atCall[h].refreshPromise = None
        => ExchangeBegunSince(h)

\* the credential held was the never-expiring environment token
C12_Witness ==
    /\ config.token = None /\ config.envPat # None
    /\ ForcedThenAsked(1, 2)
    /\ atCall[1].refreshPromise = None
    /\ result[2].ok
    /\ ExchangeBegunSince(1)

\* no token is configured or found in the environment, and the client id or the
\* client secret is missing
NoTokenNoCredentials(cfg) ==
    /\ cfg.token = None /\ cfg.envPat = None
    /\ ~cfg.clientId \/ ~cfg.clientSecret

\* C13: getAuthHeader() fails with the unauthenticated error ("No access token
\* available...") when no access value exists and no refresh material is
\* configured.
C13_NoTokenNoCredentialsIsUnauthenticated ==
    NoTokenNoCredentials(config)
    => \A c \in Calls :
          op[c] = "getAuthHeader" /\ pc[c] = "done" => result[c] = Failed(NoTokenError)

\* C13 as amended: in that case getAuthHeader() fails with the configuration
\* error ("Cannot refresh token: clientId and clientSecret are required").
C13_NoTokenNoCredentialsIsConfigurationError ==
    NoTokenNoCredentials(config)
    => \A c \in Calls :
          op[c] = "getAuthHeader" /\ pc[c] = "done" => result[c] = Failed(ConfigError)

C13_Witness ==
    /\ NoTokenNoCredentials(config)
    /\ ~config.clientId /\ ~config.clientSecret /\ config.refreshToken = None
    /\ op[1] = "getAuthHeader" /\ pc[1] = "done"
    /\ result[1] = Failed(ConfigError)

-----------------------------------------------------------------------------
(* Properties of withRetry: success, delays, the exhausted-retry error *)

\* C14: when fn succeeds on its k-th invocation (1 <= k <= maxAttempts) after
\* k-1 retryable failures, withRetry resolves with that invocation's result and
\* fn was invoked exactly k times: k-1 delays, none after the success.
C14_SuccessEndsTheLoop ==
    rtResult.kind = "resolved"
    => /\ rtpc = "done"
       /\ Len(fnCalls) = Len(errors) + 1
       /\ Len(fnCalls) >= 1 /\ Len(fnCalls) <= retryConfig.maxAttempts
       /\ AllRetryable(errors)
       /\ Len(slept) = Len(errors)
       /\ rtResult = Resolved(Len(fnCalls))

C14_Witness ==
    /\ rtResult = Resolved(MaxAttempts)
    /\ retryConfig.maxAttempts = MaxAttempts
    /\ Len(errors) = MaxAttempts - 1
    /\ errors[1].statusCode # errors[2].statusCode


\* C15: every delay withRetry sleeps between two attempts is at most the
\* configured maxDelay, for every failure status, wait hint, attempt number and
\* jitter value.
C15_DelayAtMostMaxDelay ==
    \A i \in 1..Len(slept) : slept[i] <= retryConfig.maxDelay

-----------------------------------------------------------------------------
(* Properties of paginate: laziness, collectAll *)

\* the fetcher calls that have not settled yet
FetchesInFlight ==
    Len(fetches) - Len(pages) - (IF rejectedAt # 0 THEN 1 ELSE 0)

\* C16: paginate() is lazy and strictly sequential: creating the generator
\* issues no fetch; the first fetch is issued only when the consumer asks for
\* the first item; the fetch of page k+1 is issued only after every item of the
\* pages up to k was handed to the consumer and the consumer asked for one more;
\* never are two fetches of one traversal in flight.
C16_LazyAndSequential ==
    /\ asked = 0 => fetches = <<>>
    /\ FetchesInFlight \in {0, 1}
    /\ FetchesInFlight = 1
       => /\ yielded = Flatten(pages)
          /\ asked = Len(yielded) + 1
    /\ Len(fetches) >= 1
       => Len(yielded) >= Len(Flatten(SubSeq(pages, 1, Len(fetches) - 1)))

\* the fetch of a second page is in flight, after the items of the first
C16_Witness ==
    /\ Len(fetches) = 2
    /\ FetchesInFlight = 1
    /\ Len(pages) = 1
    /\ Len(yielded) = MaxItems
    /\ asked = MaxItems + 1

-----------------------------------------------------------------------------
(* Properties of TokenManager: rotation of the refresh value, failed exchanges *)

\* exchange p got a success response and doRefresh() stored it
Stored(p) == rp[p].ok /\ rp[p].phase \in {"settled", "done"}

RECURSIVE RefreshValueAfter(_)
\* the refresh value held once the exchanges 1..n are over: the refresh_token of
\* the latest success response that supplied one, else the constructor's
RefreshValueAfter(n) ==
    IF n = 0 THEN Constructed(config, 0).refreshToken
    ELSE IF Stored(n) /\ rp[n].refresh_token # None THEN rp[n].refresh_token
    ELSE RefreshValueAfter(n - 1)

\* C17: after a successful exchange the stored refresh value is the response's
\* refresh_token when the response has one and is unchanged when it has none;
\* every exchange sends the value stored when it begins, so a rotated value is
\* the one used next.
C17_RefreshValueRotatesWhenSupplied ==
    /\ refreshToken = RefreshValueAfter(MaxRefresh)
    /\ \A i \in 1..Len(calls) :
          /\ calls[i].refresh_token = RefreshValueAfter(calls[i].id - 1)
          /\ calls[i].grant_type = IF calls[i].refresh_token # None
                                   THEN "refresh_token" ELSE "client_credentials"

\* exchange 1 rotated the configured value, exchange 2 sent the rotated value
\* and its response supplied none
C17_Witness ==
    /\ config.refreshToken = CfgRef /\ config.token # None
    /\ Len(calls) = 2
    /\ calls[1].refresh_token = CfgRef
    /\ rp[1].refresh_token = RotRef(1)
    /\ calls[2].refresh_token = RotRef(1)
    /\ Stored(2) /\ rp[2].refresh_token = None
    /\ refreshToken = RotRef(1)


\* exchange p got a non-success response and doRefresh() threw
FailedExchange(p) == ~rp[p].ok /\ rp[p].phase \in {"settled", "done"} /\ rp[p].status # 0

\* C19: a non-success response from the authorization endpoint makes the
\* refresh, and the getAuthHeader() that required it, fail with an error that
\* embeds the status code and the raw response text, after exactly one request
\* to the authorization endpoint: the token manager does not retry the exchange.
C19_FailedExchangeIsReportedNotRetried ==
    /\ \A p \in Promises : Cardinality(CallsOf(p)) <= 1
    /\ Len(calls) <= nextId - 1
    /\ \A p \in Promises :
          FailedExchange(p)
          => /\ rp[p].err = RefreshFailed(rp[p].status, ResponseText(p))
             /\ rp[p].status \in FailStatuses
             /\ Cardinality(CallsOf(p)) = 1
             /\ \A c \in Calls :
                   joined[c] = p /\ pc[c] = "done"
                   => result[c] = Failed(RefreshFailed(rp[p].status, ResponseText(p)))

C19_Witness ==
    /\ FailedExchange(1) /\ rp[1].status = 500
    /\ op[1] = "getAuthHeader" /\ pc[1] = "done" /\ joined[1] = 1
    /\ result[1] = Failed(RefreshFailed(500, ResponseText(1)))
    /\ Len(calls) = 1
    /\ pc[2] = "idle"


\* withRetry left its loop without a success and without a fatal failure
RetriesExhausted ==
    rtpc = "done" /\ rtResult.kind = "rejected" /\ rtResult.error.cls = "ServerError"

FetchesFor(ps) ==
    [i \in 1..Len(ps) |->
        CallParams(driver, params,
                   IF i = 1 THEN NullCursor ELSE ps[i - 1].nextCursor, perPage)]

\* C20: over a finite page chain that ends in a null cursor, with no failing
\* fetch, collectAll() resolves to exactly the list that consuming paginate()
\* over the same chain yields, in the same order, with the same fetcher calls.
C20_CollectAllEqualsConsumingPaginate ==
    (pgpc = "done" /\ rejectedAt = 0)
    => /\ fetches = FetchesFor(pages)
       /\ consumer = "forAwait" => yielded = Flatten(pages) /\ caResult = CaPending
       /\ consumer = "collectAll" => caResult = CaResolved(Flatten(pages))

\* collectAll over two pages of different lengths
C20_Witness ==
    /\ consumer = "collectAll"
    /\ pgpc = "done" /\ rejectedAt = 0
    /\ Len(pages) = 2
    /\ Len(pages[1].data) = 2 /\ Len(pages[2].data) = 1
    /\ caResult = CaResolved(<<Item(1, 1), Item(1, 2), Item(2, 1)>>)

-----------------------------------------------------------------------------
(* Properties of TokenManager: the staleness policy *)

\* call c is made in this step, as operation o
Made(c, o) == pc[c] = "idle" /\ pc'[c] # "idle" /\ op'[c] = o

\* C21: the state is stale exactly when expiresAt is not the never sentinel and
\* now >= expiresAt - 60 000 ms; getAuthHeader() performs or joins a refresh
\* before it returns if and only if the state is stale when it is called; on a
\* state that is not stale it returns the stored access value and sends nothing.
C21_RefreshIffStaleAtCall ==
    [][\A c \in Calls :
          Made(c, "getAuthHeader")
          => LET stale == expiresAt # Infinity /\ now >= expiresAt - 60000 IN
             /\ stale <=> (pc'[c] = "await" /\ joined'[c] # None)
             /\ stale => /\ joined'[c] = IF refreshPromise # None THEN refreshPromise
                                        ELSE nextId
                         /\ refreshPromise' = joined'[c]
             /\ ~stale => /\ pc'[c] = "done"
                          /\ result'[c] = AuthHeaderOutcome(accessToken)
                          /\ calls' = calls /\ rp' = rp
                          /\ refreshPromise' = refreshPromise]_vars

\* a call on a state made fresh by an exchange returned at once, and a later
\* call, made one tick later on the same state, had to refresh
C21_Witness ==
    \E c, d \in Calls :
        /\ c < d
        /\ op[c] = "getAuthHeader" /\ pc[c] = "done" /\ joined[c] = None
        /\ result[c].ok /\ result[c].value = Bearer(SrvTok(1))
        /\ op[d] = "getAuthHeader" /\ joined[d] = 2
        /\ now = TickMs


\* the manager was built with the never sentinel: a static token, or the
\* environment token
BuiltNeverExpiring(cfg) == Constructed(cfg, 0).expiresAt = Infinity

\* C22: a manager whose expiresAt is the never sentinel never attempts a refresh,
\* under any sequence of getAuthHeader() and handleUnauthorized() calls, even
\* if client id/secret or other refresh material is configured.
C22_NeverExpiringNeverRefreshes ==
    BuiltNeverExpiring(config)
    => /\ calls = <<>>
       /\ \A p \in Promises : rp[p].phase = "unused"
       /\ \A c \in Calls : joined[c] = None


-----------------------------------------------------------------------------
(* Properties of withRetry: which delay, which failures are fatal *)

\* the values jitteredDelay can take before attempt i + 1
BackoffDelays(i) ==
    {jitteredDelay(retryConfig.baseDelay, i, retryConfig.maxDelay, k) :
        k \in 0..(JitterSteps - 1)}

\* C23: when a non-final attempt fails with status 429 and no wait hint, or with
\* another retryable status (500, 502, 503, 504), the delay before the next
\* attempt is the jittered exponential backoff computed from baseDelay, the
\* attempt number and maxDelay, not a fixed or default wait.
C23_BackoffWithoutHint ==
    \A i \in 1..Len(slept) :
        \/ errors[i].statusCode = 429 /\ errors[i].retryAfter = NoHint
        \/ errors[i].statusCode \in {500, 502, 503, 504}
        => slept[i] \in BackoffDelays(i)


\* C24: on any attempt, a failure whose status is not one of 429, 500, 502, 503,
\* 504, or that has no numeric status code at all, is propagated at once as the
\* original error: no delay and no invocation follow it, and it is not wrapped
\* into the exhausted-retry error, also after earlier retryable failures.
C24_FatalFailurePropagatesOnAnyAttempt ==
    \A i \in 1..Len(errors) :
        \/ errors[i].statusCode = NoStatus
        \/ errors[i].statusCode \notin {429, 500, 502, 503, 504}
        => /\ i = Len(errors)
           /\ rtpc = "done"
           /\ rtResult = Rejected(errors[i])
           /\ Len(fnCalls) = i
           /\ Len(slept) = i - 1

\* two retryable failures, then a failure without status code on the third
\* attempt, with a fourth attempt still allowed
C24_Witness ==
    /\ retryConfig.maxAttempts >= 3
    /\ Len(errors) = 3
    /\ errors[1].statusCode = 503 /\ errors[2].statusCode = 429
    /\ errors[3].statusCode = NoStatus
    /\ rtResult = Rejected(errors[3])
    /\ Len(slept) = 2


-----------------------------------------------------------------------------
(* Properties of TokenManager: grant type, environment token, initial token *)

\* refresh material is held when exchange p begins: configured, or adopted from
\* the response of an earlier exchange
MaterialPresentBefore(p) ==
    \/ config.refreshToken # None
    \/ \E q \in Promises : q < p /\ Stored(q) /\ rp[q].refresh_token # None

\* C25: an exchange uses the refresh_token grant, sending the refresh value,
\* whenever refresh material is present in the configuration or was adopted
\* from an earlier response, and the client_credentials grant only when none is
\* present; the two shapes are never mixed in one request.
C25_GrantFollowsRefreshMaterial ==
    \A i \in 1..Len(calls) :
        /\ calls[i].grant_type = IF MaterialPresentBefore(calls[i].id)
                                 THEN "refresh_token" ELSE "client_credentials"
        /\ calls[i].grant_type = "refresh_token" <=> calls[i].refresh_token # None


\* some explicit credential is configured
ExplicitCredential(cfg) ==
    cfg.token # None \/ cfg.refreshToken # None \/ cfg.clientId \/ cfg.clientSecret

\* C26: the environment token (HOSPITABLE_PAT) is used only as a last resort,
\* when no explicit credential (token, refresh token, client id/secret) is
\* configured; a manager configured with client id and secret and no token gets
\* its access value from an exchange with the authorization endpoint,
\* whatever the environment holds.
C26_EnvironmentTokenIsLastResort ==
    \A c \in Calls :
        (op[c] = "getAuthHeader" /\ pc[c] = "done" /\ result[c].ok)
        => /\ result[c].value = Bearer(EnvTok) => ~ExplicitCredential(config)
           /\ (config.token = None /\ config.clientId /\ config.clientSecret)
              => \E p \in Promises : Stored(p) /\ result[c].value = Bearer(SrvTok(p))


-----------------------------------------------------------------------------
(* Properties of HttpClient.request: the authorization value *)

\* C27: HttpClient.request asks the token manager for the authorization value
\* once per retry attempt, before that attempt's network call; when that fails
\* (configuration, endpoint or unauthenticated error) the request fails with
\* that error after that single attempt: no resource-endpoint call is made for
\* the attempt and withRetry does not retry.
C27_AuthPerAttemptAndItsFailureIsFatal ==
    /\ Cardinality({c \in Calls : pc[c] # "idle"}) = Len(fnCalls)
    /\ \A c \in Calls : pc[c] # "idle" => op[c] = "getAuthHeader"
    /\ \A i \in 1..Len(apiCalls) :
          LET a == apiCalls[i].attempt IN
          /\ a \in Calls /\ pc[a] = "done" /\ result[a].ok
          /\ apiCalls[i].Authorization = result[a].value
          /\ \A j \in 1..Len(apiCalls) : j # i => apiCalls[j].attempt # a
    /\ \A a \in Calls :
          pc[a] = "done" /\ ~result[a].ok
          => /\ \A i \in 1..Len(apiCalls) : apiCalls[i].attempt # a
             /\ \A d \in Calls : d > a => pc[d] = "idle"
             /\ Len(fnCalls) = a
             /\ rtpc \in {"fn", "done"}
             /\ rtpc = "done"
                => /\ rtResult.kind = "rejected"
                   /\ rtResult.error.cls = result[a].err.kind
                   /\ rtResult.error.statusCode = NoStatus
                   /\ rtResult.error.id = a
                   /\ Len(slept) = a - 1

\* the first attempt was answered 503; the refresh the second attempt needed
\* was answered 500 by the authorization endpoint
C27_Witness ==
    /\ Len(apiCalls) = 1 /\ apiCalls[1].status = 503
    /\ pc[2] = "done" /\ ~result[2].ok
    /\ result[2].err.kind = "TokenRefreshFailed"
    /\ rtpc = "done"
    /\ rtResult.error.cls = "TokenRefreshFailed"
    /\ retryConfig.maxAttempts = 3


-----------------------------------------------------------------------------
(* Properties of the constructor's OAuth branch *)

\* a static token together with refresh material (refreshToken and/or clientId)
TokenWithRefreshMaterial(cfg) ==
    cfg.token # None /\ (cfg.refreshToken # None \/ cfg.clientId)

\* C28: a manager configured with a token and refresh material is stale from
\* construction on: as long as the configured token is the stored one the state
\* is stale, a getAuthHeader() that is the first call starts the refresh
\* (reaching the endpoint when client id and secret are configured, failing
\* with the configuration error otherwise) before it settles, and no
\* getAuthHeader() ever returns the configured token: every value returned is
\* the access_token of a stored success response.
C28_ConfiguredTokenWithMaterialIsNeverReturned ==
    TokenWithRefreshMaterial(config)
    => /\ accessToken = CfgTok => needsRefresh(expiresAt, now)
       /\ pc[1] # "idle" /\ op[1] = "getAuthHeader"
          => /\ joined[1] = 1
             /\ rp[1].phase # "unused"
             /\ IF config.clientId /\ config.clientSecret
                THEN CallsOf(1) # {}
                ELSE rp[1].err = ConfigError /\ calls = <<>>
             /\ pc[1] = "done" /\ result[1].ok
                => Stored(1) /\ result[1].value = Bearer(SrvTok(1))
       /\ \A c \in Calls :
             pc[c] = "done" /\ op[c] = "getAuthHeader" /\ result[c].ok
             => /\ result[c].value # Bearer(CfgTok)
                /\ \E p \in Promises :
                      Stored(p) /\ result[c].value = Bearer(SrvTok(p))

\* token + refreshToken + client id and secret: the first getAuthHeader()
\* returned the token of exchange 1, and a later one returned too
C28_Witness ==
    /\ config.token = CfgTok /\ config.refreshToken = CfgRef
    /\ config.clientId /\ config.clientSecret
    /\ op[1] = "getAuthHeader" /\ pc[1] = "done"
    /\ result[1].ok /\ result[1].value = Bearer(SrvTok(1))
    /\ op[2] = "getAuthHeader" /\ pc[2] = "done" /\ result[2].ok


-----------------------------------------------------------------------------
(* Frame of the credential state *)

\* the step in which doRefresh() stores the success response of exchange p
StoreStep(p) ==
    rp[p].phase = "body" /\ rp[p].ok /\ rp'[p].phase = "settled"

\* C29: accessToken and refreshToken change only in the step that stores a
\* success response; expiresAt changes only there or in the step in which
\* handleUnauthorized() is called, which sets it to 0.  A getAuthHeader() call
\* changes none of the three, and neither does a refresh that fails with the
\* configuration error or with a non-success response.
C29_CredentialStateChangesOnlyOnSuccessOrForce ==
    [][/\ accessToken' # accessToken \/ refreshToken' # refreshToken
          => \E p \in Promises :
                /\ StoreStep(p)
                /\ accessToken' = SrvTok(p)
                /\ refreshToken' \in {refreshToken, RotRef(p)}
       /\ expiresAt' # expiresAt
          => \/ \E p \in Promises :
                   /\ StoreStep(p)
                   /\ \E e \in ExpiresInChoices : expiresAt' = now + e * 1000
             \/ \E c \in Calls :
                   /\ Made(c, "handleUnauthorized")
                   /\ expiresAt' = 0
       /\ \A c \in Calls :
             Made(c, "getAuthHeader")
             => UNCHANGED <<accessToken, refreshToken, expiresAt>>
       /\ \A p \in Promises :
             /\ rp[p].phase = "unused" /\ rp'[p].err = ConfigError
                => UNCHANGED <<accessToken, refreshToken>>
             /\ rp[p].phase = "body" /\ ~rp[p].ok /\ rp'[p].phase = "settled"
                => UNCHANGED <<accessToken, refreshToken, expiresAt>>]_vars

\* exchange 1 was answered with a non-success status and the configured values
\* were kept; exchange 2 succeeded and replaced the access value
C29_Witness ==
    /\ FailedExchange(1) /\ Stored(2)
    /\ accessToken = SrvTok(2)
    /\ config.token = CfgTok
    /\ \E c \in Calls : op[c] = "handleUnauthorized" /\ pc[c] = "done"


-----------------------------------------------------------------------------
(* handleUnauthorized() during an exchange *)

\* call h is a handleUnauthorized() that was made while an exchange was in flight
ForcedDuringExchange(h) ==
    op[h] = "handleUnauthorized" /\ pc[h] # "idle" /\ concurrent[h] # {}

\* C30: a handleUnauthorized() call made while an exchange is in flight sends
\* nothing and creates no promise, it awaits the pending promise and settles
\* with that exchange's outcome; when the exchange succeeds, the store replaces
\* the 0 of the forced reset by now + expires_in * 1000, which is not stale
\* whenever expires_in exceeds the 60 s margin.
C30_ForcedCallJoinsTheExchangeInFlight ==
    [][/\ \A h \in Calls :
             Made(h, "handleUnauthorized") /\ refreshPromise \in InFlight
             => /\ pc'[h] = "await"
                /\ joined'[h] = refreshPromise
                /\ calls' = calls /\ rp' = rp /\ nextId' = nextId
                /\ refreshPromise' = refreshPromise
                /\ expiresAt' = 0
       /\ \A h \in Calls :
             ForcedDuringExchange(h) /\ pc[h] = "await" /\ pc'[h] = "done"
             => LET p == joined[h] IN
                /\ Cardinality(CallsOf(p)) = 1
                /\ result'[h].ok = rp[p].ok
                /\ ~rp[p].ok => result'[h].err = rp[p].err
       /\ \A p \in Promises :
             /\ StoreStep(p)
             /\ \E h \in Calls : ForcedDuringExchange(h) /\ joined[h] = p
             => /\ expiresAt = 0
                /\ \E e \in ExpiresInChoices :
                      /\ expiresAt' = now + e * 1000
                      /\ e * 1000 > MarginMs => ~needsRefresh(expiresAt', now)]_vars

\* the second call was a handleUnauthorized() made during exchange 1, which
\* then succeeded: one request was sent and the state is not stale
C30_Witness ==
    /\ ForcedDuringExchange(2) /\ joined[2] = 1
    /\ pc[2] = "done" /\ result[2].ok
    /\ Stored(1) /\ Len(calls) = 1
    /\ expiresAt # 0 /\ ~needsRefresh(expiresAt, now)


-----------------------------------------------------------------------------
(* Properties of paginate: the arguments of the fetcher calls *)

\* C31: in a paginate() traversal the first fetcher call has no cursor, call
\* k + 1 has the nextCursor of page k, and every call carries the caller's
\* params together with perPage equal to the perPage argument (100 by default),
\* whatever perPage the params hold.
C31_FetcherArgumentsFollowTheChain ==
    driver = "paginate"
    => /\ Len(pages) \in {Len(fetches), Len(fetches) - 1}
       /\ \A k \in 1..Len(fetches) :
             /\ fetches[k].cursor = IF k = 1 THEN NullCursor
                                    ELSE pages[k - 1].nextCursor
             /\ fetches[k].tags = params.tags
             /\ fetches[k].perPage = perPage
       /\ perPage \in {DefaultPerPage, 20}

\* the params hold perPage 50, the argument is 20: the second call has the
\* first page's cursor and perPage 20
C31_Witness ==
    /\ driver = "paginate"
    /\ params.perPage = 50 /\ perPage = 20
    /\ Len(fetches) = 2 /\ Len(pages) = 2
    /\ pages[1].nextCursor # NullCursor
    /\ fetches[1].cursor = NullCursor
    /\ fetches[2] = [tags |-> "beach", cursor |-> pages[1].nextCursor, perPage |-> 20]


-----------------------------------------------------------------------------
(* Properties of HttpClient.request: non-success responses *)

\* the failures of resource requests whose body could not be parsed
UnparsedFailures ==
    {i \in 1..Len(errors) : errors[i].cls = "HttpError" /\ errors[i].body = <<>>}

\* C32: a non-success resource response whose body is not JSON becomes an
\* error with the response's status, an empty body and the message
\* 'HTTP <status>'; with status 429, 500, 502, 503 or 504 it is retried by
\* withRetry (a delay follows unless it was the last attempt), with any other
\* status it is what the request rejects with, at its first occurrence.
C32_UnparseableErrorBodyKeepsTheStatus ==
    \A i \in UnparsedFailures :
        LET e == errors[i] IN
        /\ e.id \in 1..Len(apiCalls)
        /\ e.statusCode = apiCalls[e.id].status
        /\ e.statusCode # NoStatus
        /\ e.message = <<"HTTP ", apiCalls[e.id].status>>
        /\ IF e.statusCode \in {429, 500, 502, 503, 504}
           THEN IF i < retryConfig.maxAttempts
                THEN Len(slept) >= i /\ rtResult # Rejected(e)
                ELSE rtpc = "done" /\ Len(slept) = i - 1
           ELSE /\ i = Len(errors)
                /\ rtpc = "done" /\ rtResult = Rejected(e)
                /\ Len(slept) = i - 1
                /\ \A j \in 1..(i - 1) : errors[j].statusCode # e.statusCode

\* a 503 without a JSON body was retried, a 404 without a JSON body ended the
\* request
C32_Witness ==
    /\ UnparsedFailures = {1, 2}
    /\ errors[1].statusCode = 503 /\ errors[2].statusCode = 404
    /\ errors[2].message = <<"HTTP ", 404>>
    /\ Len(slept) = 1
    /\ rtResult = Rejected(errors[2])


-----------------------------------------------------------------------------
(* Properties of ensureRefreshed: after the exchange *)

\* the calls that went through ensureRefreshed()
Refreshing == {c \in Calls : pc[c] # "idle" /\ joined[c] # None}

\* C33: when the promise the callers share has settled, by success or by
\* failure, the slot is empty again: the slot never holds a settled promise,
\* and a call that refreshes after that starts a promise of its own (and, with
\* client id and secret configured, a request of its own) and never awaits an
\* earlier, settled one.
C33_SettledRefreshLeavesTheSlotEmpty ==
    /\ \A p \in Promises : rp[p].phase = "done" => refreshPromise # p
    /\ refreshPromise = None
       <=> \A p \in Promises : rp[p].phase \in {"unused", "done"}
    /\ \A c \in Refreshing :
          IF atCall[c].refreshPromise = None
          THEN /\ joined[c] = atCall[c].nextId
               /\ \A d \in Refreshing : d < c => joined[d] < joined[c]
               /\ config.clientId /\ config.clientSecret
                  => Cardinality(CallsOf(joined[c])) = 1
          ELSE joined[c] = atCall[c].refreshPromise

\* exchange 1 failed; the next call, a getAuthHeader() or a
\* handleUnauthorized(), found the slot empty and started exchange 2
C33_Witness ==
    /\ FailedExchange(1) /\ rp[1].phase = "done"
    /\ 2 \in Refreshing /\ atCall[2].refreshPromise = None
    /\ joined[1] = 1 /\ joined[2] = 2
    /\ CallsOf(2) # {}
    /\ op[1] = "getAuthHeader" /\ op[2] = "getAuthHeader"


-----------------------------------------------------------------------------
(* Properties of ensureRefreshed: a failed shared refresh *)

\* doRefresh() of promise p has thrown: the configuration error or the
\* non-success response
RefreshFailedAt(p) == rp[p].phase \in {"settled", "done"} /\ ~rp[p].ok

\* C34: when the refresh a promise stands for fails, every call that started
\* or joined it, getAuthHeader() or handleUnauthorized(), is rejected with that
\* failure: a call that has settled was rejected with the error doRefresh()
\* threw, never resolved with a value, and a call still awaiting it settles.
C34_FailedRefreshRejectsEveryCaller ==
    /\ [](\A c \in Refreshing :
             RefreshFailedAt(joined[c]) /\ pc[c] = "done"
             => /\ ~result[c].ok
                /\ result[c].err = rp[joined[c]].err
                /\ result[c].value = <<>>)
    /\ \A c \in Calls :
          (c \in Refreshing /\ RefreshFailedAt(joined[c]) /\ pc[c] = "await")
          ~> (pc[c] = "done" /\ ~result[c].ok)

\* two calls shared exchange 1, which was answered with a non-success status:
\* a getAuthHeader() and a handleUnauthorized(), both rejected
C34_Witness ==
    /\ FailedExchange(1)
    /\ joined[1] = 1 /\ joined[2] = 1
    /\ op[1] = "getAuthHeader" /\ op[2] = "handleUnauthorized"
    /\ pc[1] = "done" /\ pc[2] = "done"
    /\ ~result[1].ok /\ result[2] = result[1]
    /\ accessToken = CfgTok


-----------------------------------------------------------------------------
(* Properties of doRefresh: one-time-use refresh values *)

\* every success response stored so far supplied a new refresh value
EveryResponseRotates ==
    \A p \in Promises : Stored(p) => rp[p].refresh_token # None

\* C35: when every successful refresh response supplies a new refresh value, a
\* refresh value that a successful exchange has sent is not sent by any later
\* request, whatever the interleaving of getAuthHeader() and handleUnauthorized() calls.
C35_ConsumedRefreshValueIsNeverSentAgain ==
    EveryResponseRotates
    => \A i \in 1..Len(calls) : \A j \in 1..Len(calls) :
          /\ i < j
          /\ calls[i].refresh_token # None
          /\ Stored(calls[i].id)
          => calls[j].refresh_token # calls[i].refresh_token

\* three calls, two of them sharing exchange 1: exchange 1 consumed the
\* configured value, exchange 2 sent the value exchange 1 returned
C35_Witness ==
    /\ Len(calls) = 2
    /\ Stored(1) /\ Stored(2) /\ EveryResponseRotates
    /\ calls[1].refresh_token = CfgRef
    /\ calls[2].refresh_token = RotRef(1)
    /\ refreshToken = RotRef(2)
    /\ joined[1] = 1 /\ joined[2] = 1 /\ joined[3] = 2
    /\ op[2] = "handleUnauthorized"


-----------------------------------------------------------------------------
(* Properties of withRetry: invocations and delays *)

\* C36: with maxAttempts n >= 1, withRetry invokes the operation at least once
\* and at most n times; while it is not sleeping the delays slept are one
\* fewer than the invocations (as many while it sleeps); and when the n-th
\* attempt fails with a retryable status the exhausted-retry error is raised
\* at once: n - 1 delays were slept and the clock is that of the n-th
\* invocation.
C36_InvocationsAndDelaysAreBounded ==
    retryConfig.maxAttempts >= 1 /\ rtpc # "start"
    => /\ Len(fnCalls) >= 1
       /\ Len(fnCalls) <= retryConfig.maxAttempts
       /\ Len(slept) = IF rtpc = "sleep" THEN Len(fnCalls) ELSE Len(fnCalls) - 1
       /\ Len(slept) <= retryConfig.maxAttempts - 1
       /\ Len(errors) = retryConfig.maxAttempts
          => /\ rtpc = "done"
             /\ Len(slept) = retryConfig.maxAttempts - 1
             /\ clock = fnCalls[Len(fnCalls)]
             /\ ~isFatal(getStatusCode(errors[Len(errors)]))
                => rtResult = Rejected(Exhausted(errors[Len(errors)]))

\* three attempts allowed, three retryable failures: three invocations, two
\* delays, then the exhausted-retry error
C36_Witness ==
    /\ retryConfig.maxAttempts = 3
    /\ Len(fnCalls) = 3 /\ Len(errors) = 3 /\ Len(slept) = 2
    /\ rtpc = "done"
    /\ rtResult.kind = "rejected" /\ rtResult.error.cls = "ServerError"
    /\ slept[1] > 0 /\ slept[2] > 0


-----------------------------------------------------------------------------
(* Properties of withRetry: the onRateLimit callback *)

\* C37: every onRateLimit call of a withRetry call is for a failure with status
\* 429 of an attempt that is not the last allowed one, there is at most one call
\* per failure, in the order of the attempts, and it is made before the delay
\* that follows the failure is slept; so there is none for 500, 502, 503, 504,
\* for a failure that is not retried, for a 429 of the last attempt, or after
\* a success.
C37_OnRateLimitOnlyForRetried429 ==
    /\ \A i \in 1..Len(rateLimited) :
          LET a == rateLimited[i].attempt IN
          /\ retryConfig.onRateLimit
          /\ a \in 1..Len(errors)
          /\ getStatusCode(errors[a]) = 429
          /\ a < retryConfig.maxAttempts
          /\ Len(slept) >= a
          /\ rateLimited[i].retryAfter = extractRetryAfter(errors[a])
          /\ \A j \in 1..Len(rateLimited) : i < j => a < rateLimited[j].attempt
    /\ Len(rateLimited) <= Len(slept)
    /\ rtpc = "sleep" /\ retryConfig.onRateLimit
       /\ getStatusCode(errors[attempt]) = 429 /\ errors[attempt].isError
       => /\ rateLimited # <<>>
          /\ rateLimited[Len(rateLimited)].attempt = attempt
    /\ rtResult.kind = "resolved"
       => \A i \in 1..Len(rateLimited) : rateLimited[i].attempt < Len(fnCalls)

\* a 503, then a 429, then a success: one call, for the second attempt
C37_Witness ==
    /\ Len(errors) = 2
    /\ getStatusCode(errors[1]) = 503 /\ getStatusCode(errors[2]) = 429
    /\ Len(rateLimited) = 1 /\ rateLimited[1].attempt = 2
    /\ Len(slept) = 2
    /\ rtResult.kind = "resolved"


-----------------------------------------------------------------------------
(* Properties of the resources' iter() *)

\* the cursors of the first n list calls over the page chain ps
ChainCursors(ps, n) ==
    [i \in 1..n |-> IF i = 1 THEN NullCursor ELSE ps[i - 1].nextCursor]

\* C38: over the same chain of pages the iter() of properties, reservations
\* and reviews behaves as paginate() over list(): in every state of each of
\* the four generators the cursors of the list calls are absent first and then
\* each page's nextCursor, there is one call per page received (and one more
\* while a call is pending or after it failed), the items handed out are a
\* prefix of the pages' items in order and all of them at the end, and a
\* failure of the second call is thrown after exactly the first page's items.
\* iter() passes the caller's params on as they are.
C38_IterBehavesAsPaginateOverList ==
    driver \in Drivers /\ pgpc # "off"
    => /\ [i \in 1..Len(fetches) |-> fetches[i].cursor]
             = ChainCursors(pages, Len(fetches))
       /\ Len(fetches) = Len(pages)
             + (IF pgpc = "fetching" \/ rejectedAt # 0 THEN 1 ELSE 0)
       /\ Len(yielded) <= Len(Flatten(pages))
       /\ yielded = SubSeq(Flatten(pages), 1, Len(yielded))
       /\ pgpc = "done"
          => /\ yielded = Flatten(pages)
             /\ pages[Len(pages)].nextCursor = NullCursor
             /\ \A k \in 1..(Len(pages) - 1) : pages[k].nextCursor # NullCursor
       /\ rejectedAt = 2
          => /\ pgpc = "threw" /\ pgError = FetchError(2)
             /\ yielded = pages[1].data
             /\ Len(fetches) = 2
       /\ \A k \in 1..Len(fetches) :
             /\ fetches[k].tags = params.tags
             /\ driver # "paginate" => fetches[k].perPage = params.perPage

\* reservations.iter() over two pages of two and one items: two list calls,
\* the second with the first page's cursor, three items
C38_Witness ==
    /\ driver = "reservations"
    /\ pgpc = "done" /\ rejectedAt = 0
    /\ Len(pages) = 2 /\ Len(fetches) = 2
    /\ fetches[1].cursor = NullCursor
    /\ fetches[2].cursor = pages[1].nextCursor
    /\ yielded = <<Item(1, 1), Item(1, 2), Item(2, 1)>>


-----------------------------------------------------------------------------
(* Properties of paginate: the end of the traversal *)

\* C39: a paginate() traversal ends exactly at a page whose nextCursor is
\* null: it is done only after such a page, every page before the last had a
\* cursor, and no fetch follows a null cursor; a page with a cursor and no
\* items is followed by the fetch of its cursor, and so is a page whose cursor
\* has been fetched before.
C39_TraversalEndsOnlyAtNullCursor ==
    driver = "paginate"
    => /\ pgpc = "done"
          => /\ pages # <<>>
             /\ pages[Len(pages)].nextCursor = NullCursor
             /\ rejectedAt = 0
       /\ \A k \in 1..(Len(pages) - 1) : pages[k].nextCursor # NullCursor
       /\ pages # <<>> /\ pages[Len(pages)].nextCursor = NullCursor
          => /\ Len(fetches) = Len(pages)
             /\ pgpc \in {"suspended", "done"}
             /\ pgpc = "suspended" => idx >= 1
       /\ \A k \in 1..Len(pages) :
             pages[k].nextCursor # NullCursor
             => /\ k = Len(pages) => pgpc # "done"
                /\ Len(fetches) > k => fetches[k + 1].cursor = pages[k].nextCursor
                /\ pages[k].data = <<>> => Len(fetches) > k
                /\ k < Len(pages) \/ pgpc \in {"fetching", "threw"}
                   => Len(fetches) > k

\* the second page had no items and reported the cursor it was fetched with:
\* the third fetch used that cursor again
C39_Witness ==
    /\ driver = "paginate"
    /\ Len(fetches) = 3 /\ Len(pages) = 2
    /\ pages[2].data = <<>>
    /\ fetches[2].cursor # NullCursor
    /\ pages[2].nextCursor = fetches[2].cursor
    /\ fetches[3].cursor = fetches[2].cursor


-----------------------------------------------------------------------------
(* Properties of jitteredDelay *)

\* `Math.min(base * Math.pow(2, attempt - 1), max)`
exponentialDelay(base, att, max) == Min(base * Pow2(att - 1), max)

\* base delays and caps the bounds are evaluated on, next to the configured ones
DelayBases == {0, 4, 1000}
DelayCaps == {0, 1600, 60000}

\* the delay slept after failure i was computed by jitteredDelay
Jittered(i) ==
    ~(getStatusCode(errors[i]) = 429 /\ errors[i].isError
      /\ extractRetryAfter(errors[i]) > 0)

\* C40: with e = min(baseDelay * 2^(attempt-1), maxDelay), the jittered delay
\* is at least 0.75 e and at most 1.25 e and never negative, and e does not
\* decrease from one attempt to the next: for every delay withRetry has slept
\* that jitteredDelay computed, and (evaluated when withRetry is called) for
\* jitteredDelay on every base delay, cap, attempt number and jitter value of
\* the sets above.
C40_JitteredDelayWithinQuarterOfExponential ==
    /\ \A i \in 1..Len(slept) :
          Jittered(i)
          => LET e == exponentialDelay(retryConfig.baseDelay, i, retryConfig.maxDelay) IN
             /\ slept[i] >= 0
             /\ 4 * slept[i] >= 3 * e
             /\ 4 * slept[i] <= 5 * e
    /\ rtpc = "start"
       => \A base \in DelayBases, max \in DelayCaps, att \in 1..(MaxAttempts + 1),
          k \in 0..(JitterSteps - 1) :
          LET e == exponentialDelay(base, att, max)
              d == jitteredDelay(base, att, max, k) IN
          /\ d >= 0 /\ e >= 0
          /\ 4 * d >= 3 * e
          /\ 4 * d <= 5 * e
          /\ e <= exponentialDelay(base, att + 1, max)

\* base 1000, cap 1600: the first delay is the least one for e = 1000, the
\* second was computed from the capped e = 1600
C40_Witness ==
    /\ retryConfig.baseDelay = 1000 /\ retryConfig.maxDelay = 1600
    /\ Len(slept) = 2 /\ Jittered(1) /\ Jittered(2)
    /\ slept[1] = 750
    /\ slept[2] > 1200 /\ slept[2] < 2000

====
